---------------------------- MODULE Spec2Model ----------------------------
(***************************************************************************)
(* Model of the Lark scan bot (src/lark_bots/scan_service.py) and of the   *)
(* OSS -> PostgreSQL scanner (src/scanner/scan/info_scan.py).              *)
(*                                                                         *)
(* Twelve state machines share the variables below:                        *)
(*   Spec      the service: MessagePoller thread + TaskExecutor workers    *)
(*   ExecSpec  the TaskExecutor driven by two concurrent caller threads    *)
(*   ScanSpec  the Metadata phase of info_scan, run twice                  *)
(*   RunSpec   one run of info_scan in each mode (Metadata phase, Segment  *)
(*             phase, exit) and the notice the executor sends for it       *)
(*   RetrySpec one call of a remote-storage operation under tenacity       *)
(*   JobSpec   one job of the executor and the directory ExportedCSV       *)
(*   ParseSpec _handle_message on one message text                         *)
(*   FilterSpec the date filter at the head of the session loops           *)
(*   ListSpec  one call of list_objects or list_prefixes (ListLive: the    *)
(*             call keeps running)                                         *)
(*   NoteSpec  the statistics a job's success notice takes from its output *)
(*   TestSpec  the /scan parser of the service and the one of the test file*)
(*   SizeSpec  the size lookups and the row of one segment                 *)
(* ExecLive adds the fairness of the thread scheduler to ExecSpec.         *)
(***************************************************************************)
EXTENDS Integers, Sequences, FiniteSets

\* ------------------------------------------------------------------ bounds
\* messages already in the chat when the poller starts
MaxHist == 1
\* messages the chat ever holds (historical ones and later posts)
MaxMsgs == 3
\* page_size of the startup fetch (50 in the source, scaled down)
SeedPageSize == 3
\* page_size of one poll (10 in the source, scaled down)
PollPageSize == 2
\* try_execute_* calls the two harness callers issue in ExecSpec
MaxCalls == 2

\* ------------------------------------------------------------- variables
VARIABLES
    lock,           \* TaskExecutor._lock: "free" or the thread holding it
    is_running,     \* TaskExecutor._is_running
    current_task,   \* TaskExecutor._current_task (None or a description)
    workers,        \* the threads started by try_execute_*, in start order
    pc,             \* position of the poller and of the harness callers
    ccmd,           \* the command a thread passes to try_execute_*
    cres,           \* what try_execute_* returned to the thread
    ncalls,         \* number of harness calls issued so far
    cconc,          \* per harness call: the calls pending on an idle executor
    rejected,       \* ids of the commands try_execute_* returned False for
    channel,        \* the chat: message kinds, message i has message_id i
    nhist,          \* how many messages the chat held when the poller started
    seeded,         \* processed_ids as left by the startup seeding
    processed_ids,  \* MessagePoller.processed_ids
    batch,          \* messages of the current poll not yet iterated
    cur,            \* message_id being handled
    handled,        \* per message_id: times passed to _handle_message
    replies,        \* per message_id: what the poller answered to it
    args,           \* info_scan command line: dates, device filter, debug
    db_devices,     \* table fpv.devices: device_id -> flags
    db_sessions,    \* table fpv.sessions: session_id -> row
    conn,           \* transaction status of the run's psycopg2 connection
    device_config,  \* the dict load_device_config returned to this run
    run,            \* which run of info_scan this is (1 or 2)
    spc,            \* position of the run
    di,             \* index of the device prefix being scanned
    valid_sessions, \* valid_sessions of the device being scanned
    si,             \* index into valid_sessions
    stats,          \* the stats dict of scan_metadata
    trouble,        \* the run met a failure or was cut by the debug limit
    first,          \* what the first run left: rows, new count, trouble
    mode,           \* info_scan --mode: "all", "metadata" or "segments"
    db_segments,    \* table fpv.segments
    new_segments,   \* the new_segments set of scan_segments
    seg_stats,      \* the stats dict of scan_segments
    items,          \* sorted(segments_dict.items()) of the session
    ki,             \* index into items
    paired,         \* paired_new, paired_exists, unpaired of the session
    committed,      \* keys of the Segment rows this run committed
    others,         \* keys of the rows a second info_scan run committed meanwhile
    returncode,     \* exit status of the info_scan process
    notice,         \* what _run_scan sent to the chat after the process
    op,             \* the remote-storage operation being called
    fails,          \* how many of its first requests meet a transient error
    attempts,       \* requests made so far
    result,         \* how the call ended for the caller
    job,            \* kind of the job a worker thread runs: scan or export
    jpc,            \* position of that worker thread
    now,            \* wall clock
    csv_dir,        \* files of <project_root>/ExportedCSV: name and mtime
    jrc,            \* returncode of the job's subprocess
    written,        \* the CSV file the job's subprocess wrote, if any
    sent,           \* files passed to send_file for the job's chat
    text,           \* a chat message's text: its first word and the rest
    tpc,            \* whether _handle_message has run on it
    parsed,         \* what parse_scan_command / parse_export_command returned
    answer,         \* what _handle_message sent to the chat
    called,         \* the command _handle_message passed to try_execute_*
    doc_rev,        \* revision of the metadata.json documents in the bucket
    sid,            \* a session folder's name, as the text of a session_id
    frange,         \* start_date and end_date of a scan
    verdict,        \* per scanner: whether it considers the session
    lop,            \* the listing function called: list_objects / list_prefixes
    nkeys,          \* number of entries the bucket holds under the prefix
    objects,        \* list_objects' local list (list_prefixes: its result)
    continuation_token, \* entries already served; 0 is the token ""
    tries,          \* attempts tenacity has started for the call
    lpc,            \* "request", "returned" or "raised"
    nkind,          \* the job whose notice is followed: "scan" or "export"
    reported,       \* the statistics the subprocess logged
    streams,        \* result.stdout and result.stderr, as lists of lines
    npc,            \* "run", "exited" or "notified"
    stats_msg,      \* the statistics part of the success notice
    tparsed,        \* what test_scan_service.parse_scan_command returned
    remote_size,    \* content_length of a segment's down and front objects
    size_fails,     \* the objects whose head_object request fails
    segments_dict,  \* the sizes scan_segments has recorded for the segment
    zpc,            \* "sizes", "insert" or "done"
    seg_row         \* the committed fpv.segments row of the segment

execVars == <<lock, is_running, current_task, workers, ccmd, cres, rejected>>
harnessVars == <<ncalls, cconc>>
pollVars == <<channel, nhist, seeded, processed_ids, batch, cur, handled, replies>>
svcVars == <<execVars, harnessVars, pollVars, pc>>
scanVars == <<args, db_devices, db_sessions, conn, device_config, run, spc, di,
              valid_sessions, si, stats, trouble, first>>
segVars == <<mode, db_segments, new_segments, seg_stats, items, ki, paired,
             committed, others, returncode, notice>>
retryVars == <<op, fails, attempts, result>>
ingestVars == <<scanVars, segVars, retryVars>>
jobVars == <<job, jpc, now, csv_dir, jrc, written, sent>>
parseVars == <<text, tpc, parsed, answer, called>>
filterVars == <<sid, frange, verdict>>
listVars == <<lop, nkeys, objects, continuation_token, tries, lpc>>
noteVars == <<nkind, reported, streams, npc, stats_msg>>
sizeVars == <<remote_size, size_fails, segments_dict, zpc, seg_row>>
moreVars == <<filterVars, listVars, noteVars, tparsed, sizeVars>>
auxVars == <<jobVars, parseVars, doc_rev, moreVars>>
vars == <<svcVars, ingestVars, auxVars>>

\* Optional[str] None
None == <<>>
NoCmd == [kind |-> "none", id |-> 0]
NoReply == [type |-> "none", task |-> None]

Harness == {"c1", "c2"}
Threads == Harness \cup {"poller"}

\* ------------------------------------------------------------ TaskExecutor
\* f"扫库: {command}" / f"导出: {command}": never the empty string
TaskDescription(cmd) == <<cmd.kind, cmd.id>>

NewWorker(cmd) == [pc |-> "begin", cmd |-> cmd, notes |-> <<>>]

\* __init__
ExecutorInit ==
    /\ lock = "free"
    /\ is_running = FALSE
    /\ current_task = None
    /\ workers = <<>>
    /\ rejected = {}

\* `with self._lock:` entered by a caller of try_execute_*
TryAcquire(c) ==
    /\ pc[c] = "enter"
    /\ lock = "free"
    /\ lock' = c
    /\ pc' = [pc EXCEPT ![c] = "crit"]
    /\ UNCHANGED <<is_running, current_task, workers, ccmd, cres, rejected>>

\* TryCheckAndSet without `if self._is_running: return False`
TryCheckAndSet_NoGuard(c) ==
    /\ pc[c] = "crit"
    /\ lock = c
    /\ is_running' = TRUE
    /\ current_task' = TaskDescription(ccmd[c])
    /\ pc' = [pc EXCEPT ![c] = "spawn"]
    /\ lock' = "free"
    /\ UNCHANGED <<workers, ccmd, cres, rejected>>

\* TryCheckAndSet with the description assigned before the flag is tested
TryCheckAndSet_RejectOverwrites(c) ==
    /\ pc[c] = "crit"
    /\ lock = c
    /\ current_task' = TaskDescription(ccmd[c])
    /\ IF is_running
       THEN /\ cres' = [cres EXCEPT ![c] = "False"]
            /\ rejected' = rejected \cup {ccmd[c].id}
            /\ pc' = [pc EXCEPT ![c] = "ret"]
            /\ UNCHANGED is_running
       ELSE /\ is_running' = TRUE
            /\ pc' = [pc EXCEPT ![c] = "spawn"]
            /\ UNCHANGED <<cres, rejected>>
    /\ lock' = "free"
    /\ UNCHANGED <<workers, ccmd>>

\* the body of the with block: test the flag, set flag and description
TryCheckAndSet(c) ==
    /\ pc[c] = "crit"
    /\ lock = c
    /\ IF is_running
       THEN /\ cres' = [cres EXCEPT ![c] = "False"]
            /\ rejected' = rejected \cup {ccmd[c].id}
            /\ pc' = [pc EXCEPT ![c] = "ret"]
            /\ UNCHANGED <<is_running, current_task>>
       ELSE /\ is_running' = TRUE
            /\ current_task' = TaskDescription(ccmd[c])
            /\ pc' = [pc EXCEPT ![c] = "spawn"]
            /\ UNCHANGED <<cres, rejected>>
    /\ lock' = "free"
    /\ UNCHANGED <<workers, ccmd>>

\* threading.Thread(target=..., daemon=True).start(); return True
TryStartThread(c) ==
    /\ pc[c] = "spawn"
    /\ workers' = Append(workers, NewWorker(ccmd[c]))
    /\ cres' = [cres EXCEPT ![c] = "True"]
    /\ pc' = [pc EXCEPT ![c] = "ret"]
    /\ UNCHANGED <<lock, is_running, current_task, ccmd, rejected>>

TryExecute(c) == TryAcquire(c) \/ TryCheckAndSet(c) \/ TryStartThread(c)

try_execute_scan(c) == ccmd[c].kind = "scan" /\ TryExecute(c)

try_execute_export(c) == ccmd[c].kind = "export" /\ TryExecute(c)

\* ----------------------------------------------------------------- workers
Note(w, n) == [workers EXCEPT ![w].notes = Append(@, n)]

Goto(ws, w, p) == [ws EXCEPT ![w].pc = p]

\* the start notification, first statement of the try block
RunNotifyStart(w) ==
    /\ workers[w].pc = "begin"
    /\ workers' = Goto(Note(w, "start"), w, "subprocess")
    /\ UNCHANGED <<lock, is_running, current_task>>

\* subprocess.run: exit code 0, exit code non-zero, or an exception (OSError)
RunSubprocess(w) ==
    /\ workers[w].pc = "subprocess"
    /\ \E outcome \in {"ok", "failed", "except"} :
          workers' = Goto(workers, w, outcome)
    /\ UNCHANGED <<lock, is_running, current_task>>

\* returncode == 0: the success notification
RunReportSuccess(w) ==
    /\ workers[w].pc = "ok"
    /\ workers' = Goto(Note(w, "success"), w, "csv")
    /\ UNCHANGED <<lock, is_running, current_task>>

\* _send_latest_csv: nothing to send, a file sent, or an OSError of the
\* directory listing / getmtime, which the worker's except clause catches
\* (send_file itself catches its exceptions)
send_latest_csv(w) ==
    /\ workers[w].pc = "csv"
    /\ \/ workers' = Goto(workers, w, "finally")
       \/ workers' = Goto(Note(w, "file"), w, "finally")
       \/ workers' = Goto(workers, w, "except")
    /\ UNCHANGED <<lock, is_running, current_task>>

\* returncode != 0: the failure notification
RunReportFailure(w) ==
    /\ workers[w].pc = "failed"
    /\ workers' = Goto(Note(w, "failure"), w, "finally")
    /\ UNCHANGED <<lock, is_running, current_task>>

\* RunReportException with the cleanup at the end of the try body instead
\* of a finally clause: the exception path ends the thread uncleared
RunReportException_NoFinally(w) ==
    /\ workers[w].pc = "except"
    /\ workers' = [workers EXCEPT ![w] = [pc |-> "done", cmd |-> @.cmd, notes |-> <<>>]]
    /\ UNCHANGED <<lock, is_running, current_task>>

\* except Exception: the exception notification
RunReportException(w) ==
    /\ workers[w].pc = "except"
    /\ workers' = Goto(Note(w, "exception"), w, "finally")
    /\ UNCHANGED <<lock, is_running, current_task>>

\* finally: `with self._lock:`
RunFinallyAcquire(w) ==
    /\ workers[w].pc = "finally"
    /\ lock = "free"
    /\ lock' = "worker"
    /\ workers' = Goto(workers, w, "clear")
    /\ UNCHANGED <<is_running, current_task>>

\* RunFinallyClear without `self._current_task = None`
RunFinallyClear_FlagOnly(w) ==
    /\ workers[w].pc = "clear"
    /\ is_running' = FALSE
    /\ lock' = "free"
    /\ workers' = [workers EXCEPT ![w] = [pc |-> "done", cmd |-> @.cmd, notes |-> <<>>]]
    /\ UNCHANGED current_task

\* finally: clear flag and description, leave the with block; the thread
\* ends, and of the ended thread only the command it ran is remembered
RunFinallyClear(w) ==
    /\ workers[w].pc = "clear"
    /\ is_running' = FALSE
    /\ current_task' = None
    /\ lock' = "free"
    /\ workers' = [workers EXCEPT ![w] = [pc |-> "done", cmd |-> @.cmd, notes |-> <<>>]]

RunJob(w) ==
    /\ \/ RunNotifyStart(w)
       \/ RunSubprocess(w)
       \/ RunReportSuccess(w)
       \/ send_latest_csv(w)
       \/ RunReportFailure(w)
       \/ RunReportException(w)
       \/ RunFinallyAcquire(w)
       \/ RunFinallyClear(w)
    /\ UNCHANGED <<ccmd, cres, rejected>>

run_scan(w) == workers[w].cmd.kind = "scan" /\ RunJob(w)

run_export(w) == workers[w].cmd.kind = "export" /\ RunJob(w)

WorkerStep ==
    /\ \E w \in DOMAIN workers : run_scan(w) \/ run_export(w)
    /\ UNCHANGED <<pc, harnessVars, pollVars>>

\* ------------------------------------------- ExecSpec: two caller threads
\* a caller thread invokes try_execute_scan or try_execute_export
Call(c) ==
    /\ pc[c] = "idle"
    /\ ncalls < MaxCalls
    /\ \E k \in {"scan", "export"} :
          ccmd' = [ccmd EXCEPT ![c] = [kind |-> k, id |-> ncalls + 1]]
    /\ ncalls' = ncalls + 1
    /\ cres' = [cres EXCEPT ![c] = "none"]
    /\ cconc' = [cconc EXCEPT ![c] =
                   IF is_running THEN {}
                   ELSE {ccmd[d].id : d \in {e \in Harness \ {c} : pc[e] = "enter"}}]
    /\ pc' = [pc EXCEPT ![c] = "enter"]
    /\ UNCHANGED <<lock, is_running, current_task, workers, rejected, pollVars>>

\* try_execute_* has returned; the caller is free to call again
Return(c) ==
    /\ pc[c] = "ret"
    /\ pc' = [pc EXCEPT ![c] = "idle"]
    /\ UNCHANGED <<execVars, harnessVars, pollVars>>

CallerStep ==
    \E c \in Harness :
        \/ Call(c)
        \/ (try_execute_scan(c) /\ UNCHANGED <<harnessVars, pollVars>>)
        \/ (try_execute_export(c) /\ UNCHANGED <<harnessVars, pollVars>>)
        \/ Return(c)

\* no info_scan process exists
NoStats == [devices |-> 0, sessions |-> 0, new |-> 0, exists |-> 0,
            skipped |-> 0, no_metadata |-> 0, parse_fail |-> 0,
            insert_fail |-> 0]

NoFirst == [rows |-> {}, new |-> 0, trouble |-> {}]

NoSegStats == [devices |-> 0, sessions |-> 0, processed |-> 0, new |-> 0,
               exists |-> 0, skipped |-> 0, unpaired |-> 0, invalid |-> 0,
               no_session |-> 0]

NoPaired == [new |-> 0, exists |-> 0, unpaired |-> 0]

\* the second run has committed nothing
NoOthers == [sessions |-> {}, segments |-> {}]

\* scan_segments has not been entered
SegOff ==
    /\ db_segments = {}
    /\ new_segments = {}
    /\ seg_stats = NoSegStats
    /\ items = <<>>
    /\ ki = 0
    /\ paired = NoPaired
    /\ committed = {}
    /\ others = NoOthers
    /\ returncode = -1
    /\ notice = "none"

\* no remote-storage call is followed
RetryOff ==
    /\ op = "none"
    /\ fails = 0
    /\ attempts = 0
    /\ result = "none"

\* a CSV file of ExportedCSV that does not exist
NoCsv == [name |-> <<>>, mtime |-> -1]

\* no job of the executor is followed to its CSV file
JobOff ==
    /\ job = [kind |-> "none", export_all |-> FALSE]
    /\ jpc = "off"
    /\ now = 0
    /\ csv_dir = {}
    /\ jrc = -1
    /\ written = NoCsv
    /\ sent = <<>>

\* Optional[ScanCommand] / Optional[ExportCommand] None
NoCommand ==
    [kind |-> "None", device_id |-> "", start_date |-> 0, end_date |-> 0,
     export_all |-> FALSE]

\* no message text is followed through _handle_message
ParseOff ==
    /\ text = [head |-> "", parts |-> <<>>]
    /\ tpc = "off"
    /\ parsed = NoCommand
    /\ answer = "none"
    /\ called = NoCommand

\* the documents of the bucket as the run finds them
RemoteInit == doc_rev = 1

\* no session id is followed through the date filter
FilterOff ==
    /\ sid = [head |-> "", ymd |-> <<>>, tail |-> ""]
    /\ frange = [start_date |-> 0, end_date |-> 0]
    /\ verdict = [info_scan |-> "?", metadata_scan |-> "?"]

\* no listing call is followed
ListOff ==
    /\ lop = "none"
    /\ nkeys = 0
    /\ objects = <<>>
    /\ continuation_token = 0
    /\ tries = 0
    /\ lpc = "off"

\* no job is followed to the statistics of its notice
NoteOff ==
    /\ nkind = "none"
    /\ reported = [sessions |-> 0, segments |-> 0, rows |-> 0]
    /\ streams = [stdout |-> <<>>, stderr |-> <<>>]
    /\ npc = "off"
    /\ stats_msg = <<>>

\* the parser of test_scan_service.py has not been called
NotParsed ==
    [kind |-> "?", device_id |-> "", start_date |-> 0, end_date |-> 0,
     export_all |-> FALSE]

\* a segment without a row / a file without a recorded size
NoSizes == [down |-> -1, front |-> -1]

\* no segment is followed through its size lookups
SizeOff ==
    /\ remote_size = [down |-> 0, front |-> 0]
    /\ size_fails = {}
    /\ segments_dict = NoSizes
    /\ zpc = "off"
    /\ seg_row = NoSizes

MoreOff == FilterOff /\ ListOff /\ NoteOff /\ tparsed = NotParsed /\ SizeOff

AuxOff == JobOff /\ ParseOff /\ RemoteInit /\ MoreOff

\* the service is not running
IdleService ==
    /\ ExecutorInit
    /\ pc = [t \in Threads |-> "off"]
    /\ ccmd = [t \in Threads |-> NoCmd]
    /\ cres = [t \in Threads |-> "none"]
    /\ ncalls = 0
    /\ cconc = [t \in Harness |-> {}]

ScanOff ==
    /\ args = [start_date |-> 0, end_date |-> 0, device_id |-> "", debug |-> FALSE]
    /\ db_devices = {}
    /\ db_sessions = {}
    /\ conn = "closed"
    /\ device_config = {}
    /\ run = 0
    /\ spc = "off"
    /\ di = 0
    /\ valid_sessions = <<>>
    /\ si = 0
    /\ stats = NoStats
    /\ trouble = {}
    /\ first = NoFirst
    /\ mode = "none"
    /\ SegOff

PollerOff ==
    /\ channel = <<>>
    /\ nhist = 0
    /\ seeded = {}
    /\ processed_ids = {}
    /\ batch = <<>>
    /\ cur = 0
    /\ handled = [i \in 1..MaxMsgs |-> 0]
    /\ replies = [i \in 1..MaxMsgs |-> NoReply]

ExecInit ==
    /\ ExecutorInit
    /\ AuxOff
    /\ pc = [t \in Threads |-> IF t \in Harness THEN "idle" ELSE "off"]
    /\ ccmd = [t \in Threads |-> NoCmd]
    /\ cres = [t \in Threads |-> "none"]
    /\ ncalls = 0
    /\ cconc = [t \in Harness |-> {}]
    /\ PollerOff
    /\ ScanOff
    /\ RetryOff

ExecNext ==
    \/ (CallerStep /\ UNCHANGED <<ingestVars, auxVars>>)
    \/ (WorkerStep /\ UNCHANGED <<ingestVars, auxVars>>)

ExecSpec == ExecInit /\ [][ExecNext]_vars

\* --------------------------------------------------------- MessagePoller
\* what a chat message is to _poll_once and _handle_message:
\*   scan, export   a /scan or /export text the parser accepts
\*   bad            a /scan or /export text the parser rejects
\*   help           a text with "@" or one of the help keywords
\*   chat           any other text (the bot's own messages included)
\*   image          a message whose msg_type is not "text"
Kinds == {"scan", "export", "bad", "help", "chat", "image"}

Min(a, b) == IF a < b THEN a ELSE b

Range(s) == {s[i] : i \in DOMAIN s}

\* LarkClient.get_chat_messages on success: the page_size most recent
\* messages, newest first (sort_type ByCreateTimeDesc)
RecentMessages(page_size) ==
    [i \in 1..Min(page_size, Len(channel)) |-> Len(channel) - i + 1]

\* LarkClient.get_chat_messages: the page, or [] when the request failed
get_chat_messages(page_size) == {RecentMessages(page_size), <<>>}

Reply(id, r) == [replies EXCEPT ![id] = r]

\* MessagePoller.start before the loop: seed processed_ids
StartSeed ==
    /\ pc["poller"] = "seed"
    /\ \E messages \in get_chat_messages(SeedPageSize) :
          /\ processed_ids' = processed_ids \cup Range(messages)
          /\ seeded' = Range(messages)
    /\ pc' = [pc EXCEPT !["poller"] = "fetch"]
    /\ UNCHANGED <<channel, nhist, batch, cur, handled, replies>>

\* _poll_once: fetch the recent messages
PollFetch ==
    /\ pc["poller"] = "fetch"
    /\ \E messages \in get_chat_messages(PollPageSize) : batch' = messages
    /\ pc' = [pc EXCEPT !["poller"] = "iter"]
    /\ UNCHANGED <<channel, nhist, seeded, processed_ids, cur, handled, replies>>

\* PollIterate without `if msg_id in self.processed_ids: continue`
PollIterate_NoSkip ==
    /\ pc["poller"] = "iter"
    /\ IF batch = <<>>
       THEN /\ pc' = [pc EXCEPT !["poller"] = "fetch"]
            /\ UNCHANGED <<batch, processed_ids, cur, handled>>
       ELSE LET msg_id == Head(batch) IN
            /\ batch' = Tail(batch)
            /\ processed_ids' = processed_ids \cup {msg_id}
            /\ IF channel[msg_id] = "image"
               THEN UNCHANGED <<cur, handled, pc>>
               ELSE /\ cur' = msg_id
                    /\ handled' = [handled EXCEPT ![msg_id] = @ + 1]
                    /\ pc' = [pc EXCEPT !["poller"] = "handle"]
    /\ UNCHANGED <<channel, nhist, seeded, replies>>

\* PollIterate without `self.processed_ids.add(msg_id)`
PollIterate_NoMark ==
    /\ pc["poller"] = "iter"
    /\ IF batch = <<>>
       THEN /\ pc' = [pc EXCEPT !["poller"] = "fetch"]
            /\ UNCHANGED <<batch, processed_ids, cur, handled>>
       ELSE LET msg_id == Head(batch) IN
            /\ batch' = Tail(batch)
            /\ UNCHANGED processed_ids
            /\ IF msg_id \in processed_ids
               THEN UNCHANGED <<cur, handled, pc>>
               ELSE IF channel[msg_id] = "image"
                    THEN UNCHANGED <<cur, handled, pc>>
                    ELSE /\ cur' = msg_id
                         /\ handled' = [handled EXCEPT ![msg_id] = @ + 1]
                         /\ pc' = [pc EXCEPT !["poller"] = "handle"]
    /\ UNCHANGED <<channel, nhist, seeded, replies>>

\* _poll_once: one iteration of the for loop up to the call of
\* _handle_message; with the loop exhausted, time.sleep and the next poll
PollIterate ==
    /\ pc["poller"] = "iter"
    /\ IF batch = <<>>
       THEN /\ pc' = [pc EXCEPT !["poller"] = "fetch"]
            /\ UNCHANGED <<batch, processed_ids, cur, handled>>
       ELSE LET msg_id == Head(batch) IN
            /\ batch' = Tail(batch)
            /\ IF msg_id \in processed_ids
               THEN UNCHANGED <<processed_ids, cur, handled, pc>>
               ELSE /\ processed_ids' = processed_ids \cup {msg_id}
                    /\ IF channel[msg_id] = "image"
                       THEN UNCHANGED <<cur, handled, pc>>
                       ELSE /\ cur' = msg_id
                            /\ handled' = [handled EXCEPT ![msg_id] = @ + 1]
                            /\ pc' = [pc EXCEPT !["poller"] = "handle"]
    /\ UNCHANGED <<channel, nhist, seeded, replies>>

\* _handle_message returns: its locals are gone, the for loop goes on
HandlerReturns ==
    /\ pc' = [pc EXCEPT !["poller"] = "iter"]
    /\ cur' = 0
    /\ ccmd' = [ccmd EXCEPT !["poller"] = NoCmd]
    /\ cres' = [cres EXCEPT !["poller"] = "none"]

\* _handle_message up to the call of try_execute_*
HandleMessage ==
    /\ pc["poller"] = "handle"
    /\ LET kind == channel[cur] IN
       \/ /\ kind = "help"
          /\ replies' = Reply(cur, [type |-> "help", task |-> None])
          /\ HandlerReturns
       \/ /\ kind = "bad"
          /\ replies' = Reply(cur, [type |-> "usage", task |-> None])
          /\ HandlerReturns
       \/ /\ kind = "chat"
          /\ HandlerReturns
          /\ UNCHANGED replies
       \/ /\ kind \in {"scan", "export"}
          /\ ccmd' = [ccmd EXCEPT !["poller"] = [kind |-> kind, id |-> cur]]
          /\ pc' = [pc EXCEPT !["poller"] = "enter"]
          /\ UNCHANGED <<cres, cur, replies>>
    /\ UNCHANGED <<channel, nhist, seeded, processed_ids, batch, handled>>

\* _handle_message raises: _poll_once is left, start() logs and sleeps
HandleRaises ==
    /\ pc["poller"] = "handle"
    /\ batch' = <<>>
    /\ cur' = 0
    /\ pc' = [pc EXCEPT !["poller"] = "fetch"]
    /\ UNCHANGED <<ccmd, cres, channel, nhist, seeded, processed_ids,
                   handled, replies>>

\* _handle_message after try_execute_* returned True: log and return
HandleAccepted ==
    /\ pc["poller"] = "ret"
    /\ cres["poller"] = "True"
    /\ HandlerReturns
    /\ UNCHANGED <<channel, nhist, seeded, processed_ids, batch, handled, replies>>

\* _handle_message after try_execute_* returned False: the argument of
\* the busy text is evaluated, TaskExecutor.current_task takes the lock
HandleRejected ==
    /\ pc["poller"] = "ret"
    /\ cres["poller"] = "False"
    /\ pc' = [pc EXCEPT !["poller"] = "busy"]
    /\ UNCHANGED <<ccmd, cres, pollVars>>

\* the current_task property read, and the busy text sent
ReportBusy ==
    /\ pc["poller"] = "busy"
    /\ lock = "free"
    /\ replies' = Reply(cur, [type |-> "busy", task |-> current_task])
    /\ HandlerReturns
    /\ UNCHANGED <<channel, nhist, seeded, processed_ids, batch, handled>>

PollerStep ==
    \/ (StartSeed /\ UNCHANGED <<execVars, harnessVars>>)
    \/ (PollFetch /\ UNCHANGED <<execVars, harnessVars>>)
    \/ (PollIterate /\ UNCHANGED <<execVars, harnessVars>>)
    \/ (HandleMessage
          /\ UNCHANGED <<lock, is_running, current_task, workers, rejected, harnessVars>>)
    \/ (HandleRaises
          /\ UNCHANGED <<lock, is_running, current_task, workers, rejected, harnessVars>>)
    \/ (try_execute_scan("poller") /\ UNCHANGED <<harnessVars, pollVars>>)
    \/ (try_execute_export("poller") /\ UNCHANGED <<harnessVars, pollVars>>)
    \/ (HandleAccepted
          /\ UNCHANGED <<lock, is_running, current_task, workers, rejected, harnessVars>>)
    \/ (HandleRejected
          /\ UNCHANGED <<lock, is_running, current_task, workers, rejected, harnessVars>>)
    \/ (ReportBusy
          /\ UNCHANGED <<lock, is_running, current_task, workers, rejected, harnessVars>>)

\* someone (a user, or the bot itself) posts a message to the chat. The
\* poller reads the chat only in PollFetch, so a post made at any moment
\* between two fetches acts as one made just before the second fetch.
Post ==
    /\ pc["poller"] = "fetch"
    /\ Len(channel) < MaxMsgs
    /\ \E k \in Kinds : channel' = Append(channel, k)
    /\ UNCHANGED <<execVars, harnessVars, pc, nhist, seeded, processed_ids,
                   batch, cur, handled, replies>>

\* main(): executor and poller constructed, poller.start() entered
Init ==
    /\ ExecutorInit
    /\ AuxOff
    /\ pc = [t \in Threads |-> IF t = "poller" THEN "seed" ELSE "off"]
    /\ ccmd = [t \in Threads |-> NoCmd]
    /\ cres = [t \in Threads |-> "none"]
    /\ ncalls = 0
    /\ cconc = [t \in Harness |-> {}]
    /\ \E n \in 0..MaxHist : channel \in [1..n -> Kinds]
    /\ nhist = Len(channel)
    /\ seeded = {}
    /\ processed_ids = {}
    /\ batch = <<>>
    /\ cur = 0
    /\ handled = [i \in 1..MaxMsgs |-> 0]
    /\ replies = [i \in 1..MaxMsgs |-> NoReply]
    /\ ScanOff
    /\ RetryOff

Next ==
    \/ (PollerStep /\ UNCHANGED <<ingestVars, auxVars>>)
    \/ (Post /\ UNCHANGED <<ingestVars, auxVars>>)
    \/ (WorkerStep /\ UNCHANGED <<ingestVars, auxVars>>)

Spec == Init /\ [][Next]_vars

\* ------------------------------------------- info_scan: the Metadata phase
\* parse_session_id's None for the date
NoDate == 0

\* new rows after which a debug-mode phase stops (5 in the source, scaled
\* down)
DebugLimit == 2

\* the bucket: what list_prefixes(bucket, "") returns
DevicePrefixes == <<"d1", "d2", "d3">>

\* one prefix under a device prefix: its last path component, whether that
\* starts with "session_", the date its name encodes (NoDate when the name
\* does not parse) and what metadata.json under it is
Prefix(name, is_session, d, metadata) ==
    [name |-> name, is_session |-> is_session, date |-> d, metadata |-> metadata]

\* the bucket: what list_prefixes(bucket, device_prefix) returns
SessionPrefixes(device_prefix) ==
    CASE device_prefix = "d1" ->
            << Prefix("s1", TRUE, 2, "good"), Prefix("s2", TRUE, 2, "good"),
               Prefix("s3", TRUE, 2, "good"), Prefix("s4", TRUE, 1, "good") >>
      [] device_prefix = "d2" ->
            << Prefix("s5", TRUE, 2, "badjson"), Prefix("logs", FALSE, NoDate, "absent"),
               Prefix("s6", TRUE, 2, "absent"), Prefix("s7", TRUE, NoDate, "good"),
               Prefix("s8", TRUE, 2, "good") >>
      [] OTHER ->
            << Prefix("s9", TRUE, 2, "good") >>

\* a row of fpv.devices, an entry of the device_config dict
DeviceRow(device_id, is_active, skip_scan) ==
    [device_id |-> device_id, is_active |-> is_active, skip_scan |-> skip_scan]

\* revision of the documents from which the rows stored before the run
\* were made
StoredRev == 0

\* prepare_session_record(device_id, session_id, metadata): the row of a
\* session, made from revision rev of its metadata.json
SessionRecord(device_id, session, rev) ==
    [session_id |-> session.name, device_id |-> device_id,
     collect_date |-> session.date, raw_metadata_json |-> <<session.metadata, rev>>]

\* prepare_session_record on the document just downloaded
prepare_session_record(device_id, session) ==
    SessionRecord(device_id, session, doc_rev)

\* parse_session_id: the date object (third component)
parse_session_id(session) == session.date

\* is_date_in_range
is_date_in_range(session_date, start_date, end_date) ==
    IF session_date = NoDate THEN FALSE
    ELSE IF start_date = NoDate /\ end_date = NoDate THEN TRUE
    ELSE IF start_date # NoDate /\ session_date < start_date THEN FALSE
    ELSE IF end_date # NoDate /\ session_date > end_date THEN FALSE
    ELSE TRUE

\* fpv.sessions without its primary key: no session_id is ever found
is_session_exists_Never(session_id) == FALSE

\* is_session_exists when the SELECT succeeds
is_session_exists(session_id) == \E r \in db_sessions : r.session_id = session_id

IsSessionPrefix(p) == p.is_session

Bump(field) == [stats EXCEPT ![field] = @ + 1]

\* insert_session without conn.commit(): the row is gone when the
\* connection is closed
CommitSession_NoCommit(rows, record) == rows

\* insert_session, execute and commit: the table with the new row
CommitSession(rows, record) == rows \cup {record}

\* main(): connect to the database and load the device configuration
ScanStart ==
    /\ spc = "start"
    /\ \/ \* get_db_connection raises: main's except clause ends the run
          /\ spc' = "failed"
          /\ trouble' = trouble \cup {"connect"}
          /\ UNCHANGED <<conn, device_config>>
       \/ \* load_device_config: the SELECT opens a transaction
          /\ device_config' = db_devices
          /\ conn' = "intrans"
          /\ spc' = "list"
          /\ UNCHANGED trouble
       \/ \* load_device_config: the SELECT fails, {} is returned
          /\ device_config' = {}
          /\ conn' = "aborted"
          /\ spc' = "list"
          /\ trouble' = trouble \cup {"config"}
    /\ UNCHANGED <<args, db_devices, db_sessions, run, di, valid_sessions, si,
                   stats, first>>

\* scan_metadata: list_prefixes(bucket, ""), with its retries exhausted the
\* exception leaves scan_metadata
MetaListDevices ==
    /\ spc = "list"
    /\ \/ /\ di' = 1
          /\ spc' = "device"
          /\ UNCHANGED trouble
       \/ /\ spc' = "failed"
          /\ trouble' = trouble \cup {"storage"}
          /\ UNCHANGED di
    /\ UNCHANGED <<args, db_devices, db_sessions, conn, device_config, run,
                   valid_sessions, si, stats, first>>

SkipDevice ==
    /\ di' = di + 1
    /\ UNCHANGED <<spc, stats>>

ScanDevice ==
    /\ stats' = Bump("devices")
    /\ spc' = "sessions"
    /\ UNCHANGED di

\* scan_metadata: the head of the device loop, with ensure_device_exists
MetaDevice ==
    /\ spc = "device"
    /\ IF di > Len(DevicePrefixes)
       THEN /\ spc' = "done"
            /\ UNCHANGED <<di, stats, db_devices, conn, device_config, trouble>>
       ELSE LET device_id == DevicePrefixes[di]
                known == {r \in device_config : r.device_id = device_id}
            IN
            IF args.device_id # "" /\ device_id # args.device_id
            THEN /\ SkipDevice
                 /\ UNCHANGED <<db_devices, conn, device_config, trouble>>
            ELSE IF known # {}
            THEN /\ IF \E r \in known : r.skip_scan \/ ~r.is_active
                    THEN SkipDevice
                    ELSE ScanDevice
                 /\ UNCHANGED <<db_devices, conn, device_config, trouble>>
            ELSE \* INSERT ... ON CONFLICT (device_id) DO NOTHING
                 \/ /\ conn # "aborted"
                    /\ db_devices' =
                          IF \E r \in db_devices : r.device_id = device_id
                          THEN db_devices
                          ELSE db_devices \cup {DeviceRow(device_id, TRUE, FALSE)}
                    /\ conn' = "idle"
                    /\ device_config' =
                          device_config \cup {DeviceRow(device_id, TRUE, FALSE)}
                    /\ ScanDevice
                    /\ UNCHANGED trouble
                 \/ \* the INSERT fails: rollback, return False
                    /\ conn' = "idle"
                    /\ trouble' = trouble \cup {"database"}
                    /\ SkipDevice
                    /\ UNCHANGED <<db_devices, device_config>>
    /\ UNCHANGED <<args, db_sessions, run, valid_sessions, si, first>>

\* scan_metadata: list_prefixes(bucket, device_prefix) and valid_sessions
MetaListSessions ==
    /\ spc = "sessions"
    /\ \/ /\ valid_sessions' =
                SelectSeq(SessionPrefixes(DevicePrefixes[di]), IsSessionPrefix)
          /\ si' = 1
          /\ spc' = "session"
          /\ UNCHANGED trouble
       \/ /\ spc' = "failed"
          /\ trouble' = trouble \cup {"storage"}
          /\ UNCHANGED <<valid_sessions, si>>
    /\ UNCHANGED <<args, db_devices, db_sessions, conn, device_config, run, di,
                   stats, first>>

\* scan_metadata: the head of the session loop: date filter and
\* is_session_exists
MetaSessionCheck ==
    /\ spc = "session"
    /\ IF si > Len(valid_sessions)
       THEN /\ di' = di + 1
            /\ spc' = "device"
            /\ UNCHANGED <<si, stats, conn, trouble>>
       ELSE LET session == valid_sessions[si] IN
            /\ UNCHANGED di
            /\ IF ~is_date_in_range(parse_session_id(session),
                                    args.start_date, args.end_date)
               THEN /\ stats' = [Bump("sessions") EXCEPT !.skipped = @ + 1]
                    /\ si' = si + 1
                    /\ UNCHANGED <<spc, conn, trouble>>
               ELSE \/ \* the SELECT succeeds
                       /\ conn # "aborted"
                       /\ conn' = "intrans"
                       /\ IF is_session_exists(session.name)
                          THEN /\ stats' = [Bump("sessions") EXCEPT !.exists = @ + 1]
                               /\ si' = si + 1
                               /\ UNCHANGED spc
                          ELSE /\ stats' = Bump("sessions")
                               /\ spc' = "fetch"
                               /\ UNCHANGED si
                       /\ UNCHANGED trouble
                    \/ \* the SELECT fails: logged, False returned, the
                       \* transaction is left aborted
                       /\ conn' = "aborted"
                       /\ stats' = Bump("sessions")
                       /\ spc' = "fetch"
                       /\ trouble' = trouble \cup {"database"}
                       /\ UNCHANGED si
    /\ UNCHANGED <<args, db_devices, db_sessions, device_config, run,
                   valid_sessions, first>>

\* scan_metadata letting the exception of one session leave the phase
SessionFailed_Propagates ==
    /\ stats' = Bump("parse_fail")
    /\ spc' = "failed"
    /\ UNCHANGED si

\* scan_metadata: the except clauses of the session's try block count the
\* failure; the loop goes on
SessionFailed ==
    /\ stats' = Bump("parse_fail")
    /\ si' = si + 1
    /\ spc' = "session"

\* scan_metadata: object_exists, get_object_to_file, json.load
MetaSessionFetch ==
    /\ spc = "fetch"
    /\ LET session == valid_sessions[si] IN
       \/ \* object_exists or the download raises: except Exception
          /\ SessionFailed
          /\ trouble' = trouble \cup {"storage"}
       \/ /\ session.metadata = "absent"
          /\ stats' = Bump("no_metadata")
          /\ si' = si + 1
          /\ spc' = "session"
          /\ UNCHANGED trouble
       \/ \* json.JSONDecodeError
          /\ session.metadata = "badjson"
          /\ SessionFailed
          /\ UNCHANGED trouble
       \/ /\ session.metadata = "good"
          /\ spc' = "insert"
          /\ UNCHANGED <<si, stats, trouble>>
    /\ UNCHANGED <<args, db_devices, db_sessions, conn, device_config, run, di,
                   valid_sessions, first>>

\* the debug test comparing with > instead of >=
DebugLimitReached_OneLate(n) == args.debug /\ n > DebugLimit

\* scan_metadata / scan_segments: "if debug_mode and <new rows> >= 5"
DebugLimitReached(n) == args.debug /\ n >= DebugLimit

\* scan_metadata after insert_session returned: counters, debug limit
AfterInsertAs(inserted, why) ==
    LET new == IF inserted THEN stats.new + 1 ELSE stats.new IN
    /\ stats' = IF inserted THEN Bump("new") ELSE Bump("insert_fail")
    /\ IF DebugLimitReached(new)
       THEN /\ spc' = "done"
            /\ trouble' = trouble \cup {"debug"}
            /\ UNCHANGED si
       ELSE /\ spc' = "session"
            /\ si' = si + 1
            /\ trouble' = IF inserted THEN trouble ELSE trouble \cup {why}

AfterInsert(inserted) == AfterInsertAs(inserted, "database")

\* scan_metadata: prepare_session_record and insert_session
MetaSessionInsert ==
    /\ spc = "insert"
    /\ LET record == prepare_session_record(DevicePrefixes[di], valid_sessions[si]) IN
       \/ \* execute and commit
          /\ conn # "aborted"
          /\ ~is_session_exists(record.session_id)
          /\ db_sessions' = CommitSession(db_sessions, record)
          /\ AfterInsert(TRUE)
       \/ \* psycopg2.errors.UniqueViolation: rollback, False
          /\ conn # "aborted"
          /\ is_session_exists(record.session_id)
          /\ UNCHANGED db_sessions
          /\ AfterInsertAs(FALSE, "unique")
       \/ \* any other error (the transaction was aborted, the database is
          \* unreachable): rollback, False
          /\ UNCHANGED db_sessions
          /\ AfterInsert(FALSE)
    /\ conn' = "idle"
    /\ UNCHANGED <<args, db_devices, device_config, run, di, valid_sessions, first>>

\* main()'s finally closes the connection; the same command is run again
\* over the same bucket
SecondRun ==
    /\ run = 1
    /\ spc \in {"done", "failed"}
    /\ first' = [rows |-> db_sessions, new |-> stats.new, trouble |-> trouble]
    /\ run' = 2
    /\ spc' = "start"
    /\ conn' = "closed"
    /\ device_config' = {}
    /\ di' = 0
    /\ valid_sessions' = <<>>
    /\ si' = 0
    /\ stats' = NoStats
    /\ trouble' = {}
    /\ doc_rev' \in {doc_rev, doc_rev + 1}
    /\ UNCHANGED <<args, db_devices, db_sessions>>

\* the database and the command line of the first run
ScanInit ==
    /\ \E range \in {<<2, 2>>, <<1, 2>>}, f \in {"", "d1"}, debug \in BOOLEAN :
          args = [start_date |-> range[1], end_date |-> range[2],
                  device_id |-> f, debug |-> debug]
    /\ \E d3 \in {DeviceRow("d3", FALSE, FALSE), DeviceRow("d3", TRUE, TRUE)} :
          db_devices = {DeviceRow("d1", TRUE, FALSE), d3}
    /\ db_sessions \in {{}, {SessionRecord("d1", SessionPrefixes("d1")[1], StoredRev)}}
    /\ conn = "closed"
    /\ device_config = {}
    /\ run = 1
    /\ spc = "start"
    /\ di = 0
    /\ valid_sessions = <<>>
    /\ si = 0
    /\ stats = NoStats
    /\ trouble = {}
    /\ first = NoFirst
    /\ mode = "metadata"
    /\ SegOff
    /\ RetryOff
    /\ ExecutorInit
    /\ AuxOff
    /\ pc = [t \in Threads |-> "off"]
    /\ ccmd = [t \in Threads |-> NoCmd]
    /\ cres = [t \in Threads |-> "none"]
    /\ ncalls = 0
    /\ cconc = [t \in Harness |-> {}]
    /\ PollerOff

ScanNext ==
    \/ (ScanStart /\ UNCHANGED <<svcVars, segVars, retryVars, auxVars>>)
    \/ (MetaListDevices /\ UNCHANGED <<svcVars, segVars, retryVars, auxVars>>)
    \/ (MetaDevice /\ UNCHANGED <<svcVars, segVars, retryVars, auxVars>>)
    \/ (MetaListSessions /\ UNCHANGED <<svcVars, segVars, retryVars, auxVars>>)
    \/ (MetaSessionCheck /\ UNCHANGED <<svcVars, segVars, retryVars, auxVars>>)
    \/ (MetaSessionFetch /\ UNCHANGED <<svcVars, segVars, retryVars, auxVars>>)
    \/ (MetaSessionInsert /\ UNCHANGED <<svcVars, segVars, retryVars, auxVars>>)
    \/ (SecondRun /\ UNCHANGED <<svcVars, segVars, retryVars, jobVars, parseVars, moreVars>>)

ScanSpec == ScanInit /\ [][ScanNext]_vars

\* -------------------------------------------- info_scan: the Segment phase
\* rows another info_scan process may commit during this run
MaxOthers == 1

\* an object key under <session>/segments/: the text before "_sbs_", the
\* digits after it, whether the name has the form <x>_sbs_<digits>, and the
\* extension
File(camera_type, segment_number, sbs, ext) ==
    [camera_type |-> camera_type, segment_number |-> segment_number,
     sbs |-> sbs, ext |-> ext]

NoFile == File("", 0, FALSE, "")

\* the bucket: what list_objects(bucket, segments_prefix) returns
Objects(session_id) ==
    CASE session_id = "s1" ->
            << File("2ed0-down", 1, TRUE, "mp4"), File("2ed0-front", 1, TRUE, "mp4"),
               File("2ed0-down", 2, TRUE, "mp4"), File("2ED0-Front", 2, TRUE, "mp4") >>
      [] session_id = "s2" ->
            << File("2ed0-down", 1, TRUE, "mp4"), File("2ed0-front", 2, TRUE, "mp4") >>
      [] session_id = "s3" ->
            << File("2ed0-down", 1, TRUE, "mp4"), File("2ed0-front", 1, TRUE, "mp4"),
               File("stereo_cam0", 1, TRUE, "mp4"), File("2ed0-front", 2, FALSE, "mp4"),
               File("notes", 0, FALSE, "txt") >>
      [] session_id \in {"s4", "s5", "s8", "s9"} ->
            << File("2ed0-down", 1, TRUE, "mp4"), File("2ed0-front", 1, TRUE, "mp4") >>
      [] OTHER -> << >>

\* parse_mp4_filename: (camera_type, segment_number) or ("", "")
parse_mp4_filename(filename) ==
    IF filename.sbs /\ filename.ext = "mp4"
    THEN <<filename.camera_type, filename.segment_number>>
    ELSE <<"", 0>>

\* "down" in camera_type.lower(), "front" in camera_type.lower()
CameraKind(camera_type) ==
    IF camera_type \in {"2ed0-down", "2ED0-Down"} THEN "down"
    ELSE IF camera_type \in {"2ed0-front", "2ED0-Front"} THEN "front"
    ELSE "other"

IsMp4(filename) == filename.ext = "mp4"

\* the files of mp4_objects that land in segments_dict
Grouped(mp4_objects) ==
    {i \in 1..Len(mp4_objects) :
        /\ parse_mp4_filename(mp4_objects[i])[1] # ""
        /\ CameraKind(parse_mp4_filename(mp4_objects[i])[1]) # "other"}

\* segments_dict[segment_number][<kind>_file_name]: the last such file
\* listed, NoFile when the key is absent
FileOf(mp4_objects, segment_number, kind) ==
    LET hits == {i \in Grouped(mp4_objects) :
                    /\ mp4_objects[i].segment_number = segment_number
                    /\ CameraKind(mp4_objects[i].camera_type) = kind}
    IN  IF hits = {} THEN NoFile
        ELSE mp4_objects[CHOOSE i \in hits : \A j \in hits : j <= i]

\* the elements of a set of numbers in ascending order
Sorted(S) ==
    CHOOSE q \in [1..Cardinality(S) -> S] :
        \A i, j \in 1..Cardinality(S) : i < j => q[i] < q[j]

\* sorted(segments_dict.items())
SegmentItems(mp4_objects) ==
    LET numbers == {mp4_objects[i].segment_number : i \in Grouped(mp4_objects)}
        order == Sorted(numbers)
    IN  [k \in 1..Cardinality(numbers) |->
            [segment_number |-> order[k],
             down |-> FileOf(mp4_objects, order[k], "down"),
             front |-> FileOf(mp4_objects, order[k], "front")]]

\* invalid_filenames of the session
InvalidFilenames(mp4_objects) ==
    Cardinality({i \in 1..Len(mp4_objects) : i \notin Grouped(mp4_objects)})

\* the record scan_segments builds for a complete pair; sizes are what
\* get_object_size returned
SegmentRecord(session_id, item, size) ==
    [session_id |-> session_id, segment_number |-> item.segment_number,
     down_file_name |-> item.down, front_file_name |-> item.front,
     down_file_size_bytes |-> size, front_file_size_bytes |-> size]

\* is_segment_exists when the SELECT succeeds
is_segment_exists(session_id, segment_number) ==
    \E r \in db_segments :
        r.session_id = session_id /\ r.segment_number = segment_number

BumpSeg(field) == [seg_stats EXCEPT ![field] = @ + 1]

\* scan_segments: the per-session counters are added to stats
Folded(st, p) ==
    [st EXCEPT !.new = @ + p.new, !.exists = @ + p.exists,
               !.unpaired = @ + p.unpaired]

\* scan_segments: list_prefixes(bucket, "")
SegListDevices ==
    /\ spc = "seg_list"
    /\ \/ /\ di' = 1
          /\ spc' = "seg_device"
          /\ UNCHANGED trouble
       \/ /\ spc' = "failed"
          /\ trouble' = trouble \cup {"storage"}
          /\ UNCHANGED di
    /\ UNCHANGED <<args, db_devices, db_sessions, conn, device_config, run,
                   valid_sessions, si, stats, first>>
    /\ UNCHANGED <<mode, db_segments, new_segments, seg_stats, items, ki,
                   paired, committed, others, returncode, notice>>

\* scan_segments: the head of the device loop
SegDevice ==
    /\ spc = "seg_device"
    /\ IF di > Len(DevicePrefixes)
       THEN /\ spc' = "seg_done"
            /\ UNCHANGED <<di, seg_stats>>
       ELSE LET device_id == DevicePrefixes[di]
                known == {r \in device_config : r.device_id = device_id}
            IN
            IF \/ args.device_id # "" /\ device_id # args.device_id
               \/ known = {}
               \/ \E r \in known : r.skip_scan
            THEN /\ di' = di + 1
                 /\ UNCHANGED <<spc, seg_stats>>
            ELSE /\ seg_stats' = BumpSeg("devices")
                 /\ spc' = "seg_sessions"
                 /\ UNCHANGED di
    /\ UNCHANGED <<args, db_devices, db_sessions, conn, device_config, run,
                   valid_sessions, si, stats, trouble, first>>
    /\ UNCHANGED <<mode, db_segments, new_segments, items, ki, paired,
                   committed, others, returncode, notice>>

\* scan_segments: list_prefixes(bucket, device_prefix) and valid_sessions
SegListSessions ==
    /\ spc = "seg_sessions"
    /\ \/ /\ valid_sessions' =
                SelectSeq(SessionPrefixes(DevicePrefixes[di]), IsSessionPrefix)
          /\ si' = 1
          /\ spc' = "seg_session"
          /\ UNCHANGED trouble
       \/ /\ spc' = "failed"
          /\ trouble' = trouble \cup {"storage"}
          /\ UNCHANGED <<valid_sessions, si>>
    /\ UNCHANGED <<args, db_devices, db_sessions, conn, device_config, run, di,
                   stats, first>>
    /\ UNCHANGED <<mode, db_segments, new_segments, seg_stats, items, ki,
                   paired, committed, others, returncode, notice>>

\* scan_segments without the is_session_exists test
SegSessionCheck_NoLookup ==
    /\ spc = "seg_session"
    /\ IF si > Len(valid_sessions)
       THEN /\ di' = di + 1
            /\ spc' = "seg_device"
            /\ UNCHANGED <<si, seg_stats>>
       ELSE /\ seg_stats' = [BumpSeg("sessions") EXCEPT !.processed = @ + 1]
            /\ spc' = "seg_objects"
            /\ UNCHANGED <<di, si>>
    /\ UNCHANGED <<conn, trouble>>
    /\ UNCHANGED <<args, db_devices, db_sessions, device_config, run,
                   valid_sessions, stats, first>>
    /\ UNCHANGED <<mode, db_segments, new_segments, items, ki, paired,
                   committed, others, returncode, notice>>

\* scan_segments: the head of the session loop: date filter and
\* is_session_exists
SegSessionCheck ==
    /\ spc = "seg_session"
    /\ IF si > Len(valid_sessions)
       THEN /\ di' = di + 1
            /\ spc' = "seg_device"
            /\ UNCHANGED <<si, seg_stats, conn, trouble>>
       ELSE LET session == valid_sessions[si] IN
            /\ UNCHANGED di
            /\ IF ~is_date_in_range(parse_session_id(session),
                                    args.start_date, args.end_date)
               THEN /\ seg_stats' = [BumpSeg("sessions") EXCEPT !.skipped = @ + 1]
                    /\ si' = si + 1
                    /\ UNCHANGED <<spc, conn, trouble>>
               ELSE \/ \* the SELECT succeeds
                       /\ conn # "aborted"
                       /\ conn' = "intrans"
                       /\ IF is_session_exists(session.name)
                          THEN /\ seg_stats' =
                                     [BumpSeg("sessions") EXCEPT !.processed = @ + 1]
                               /\ spc' = "seg_objects"
                               /\ UNCHANGED si
                          ELSE /\ seg_stats' =
                                     [BumpSeg("sessions") EXCEPT !.no_session = @ + 1]
                               /\ si' = si + 1
                               /\ UNCHANGED spc
                       /\ UNCHANGED trouble
                    \/ \* the SELECT fails: False is returned
                       /\ conn' = "aborted"
                       /\ seg_stats' =
                             [BumpSeg("sessions") EXCEPT !.no_session = @ + 1]
                       /\ si' = si + 1
                       /\ trouble' = trouble \cup {"database"}
                       /\ UNCHANGED spc
    /\ UNCHANGED <<args, db_devices, db_sessions, device_config, run,
                   valid_sessions, stats, first>>
    /\ UNCHANGED <<mode, db_segments, new_segments, items, ki, paired,
                   committed, others, returncode, notice>>

\* scan_segments: list_objects and the grouping by segment_number
SegListObjects ==
    /\ spc = "seg_objects"
    /\ \/ \* list_objects raises after its retries: continue
          /\ si' = si + 1
          /\ spc' = "seg_session"
          /\ trouble' = trouble \cup {"storage"}
          /\ UNCHANGED <<seg_stats, items, ki, paired>>
       \/ LET mp4_objects == SelectSeq(Objects(valid_sessions[si].name), IsMp4) IN
          /\ UNCHANGED trouble
          /\ IF Len(mp4_objects) = 0
             THEN /\ si' = si + 1
                  /\ spc' = "seg_session"
                  /\ UNCHANGED <<seg_stats, items, ki, paired>>
             ELSE /\ seg_stats' = [seg_stats EXCEPT
                                      !.invalid = @ + InvalidFilenames(mp4_objects)]
                  /\ items' = SegmentItems(mp4_objects)
                  /\ ki' = 1
                  /\ paired' = NoPaired
                  /\ spc' = "seg_pair"
                  /\ UNCHANGED si
    /\ UNCHANGED <<args, db_devices, db_sessions, conn, device_config, run, di,
                   valid_sessions, stats, first>>
    /\ UNCHANGED <<mode, db_segments, new_segments, committed, others,
                   returncode, notice>>

\* scan_segments without the test for both files
SegPair_NoPairTest(item) == FALSE

\* scan_segments: "down_file_name" not in files or "front_file_name" not in
\* files
Unpaired(item) == item.down = NoFile \/ item.front = NoFile

\* scan_segments: the head of the loop over the pairs, with
\* is_segment_exists
SegPair ==
    /\ spc = "seg_pair"
    /\ IF ki > Len(items)
       THEN /\ seg_stats' = Folded(seg_stats, paired)
            /\ si' = si + 1
            /\ spc' = "seg_session"
            /\ UNCHANGED <<ki, paired, conn, trouble>>
       ELSE /\ UNCHANGED <<si, seg_stats>>
            /\ IF Unpaired(items[ki])
               THEN /\ paired' = [paired EXCEPT !.unpaired = @ + 1]
                    /\ ki' = ki + 1
                    /\ UNCHANGED <<spc, conn, trouble>>
               ELSE \/ \* the SELECT succeeds
                       /\ conn # "aborted"
                       /\ conn' = "intrans"
                       /\ IF is_segment_exists(valid_sessions[si].name,
                                               items[ki].segment_number)
                          THEN /\ paired' = [paired EXCEPT !.exists = @ + 1]
                               /\ ki' = ki + 1
                               /\ UNCHANGED spc
                          ELSE /\ spc' = "seg_insert"
                               /\ UNCHANGED <<ki, paired>>
                       /\ UNCHANGED trouble
                    \/ \* the SELECT fails: False is returned
                       /\ conn' = "aborted"
                       /\ spc' = "seg_insert"
                       /\ trouble' = trouble \cup {"database"}
                       /\ UNCHANGED <<ki, paired>>
    /\ UNCHANGED <<args, db_devices, db_sessions, device_config, run, di,
                   valid_sessions, stats, first>>
    /\ UNCHANGED <<mode, db_segments, new_segments, items, committed, others,
                   returncode, notice>>

\* scan_segments adding the key of every attempted insert
Tracked_Attempted(set, key, inserted) == set \cup {key}

\* scan_segments: new_segments.add(...) under "if insert_segment(...)"
Tracked(set, key, inserted) == IF inserted THEN set \cup {key} ELSE set

\* scan_segments after insert_segment returned: counters, change tracking,
\* debug limit
AfterSegInsert(key, inserted, why) ==
    LET p == IF inserted THEN [paired EXCEPT !.new = @ + 1] ELSE paired
        t == IF inserted THEN trouble ELSE trouble \cup {why}
    IN
    /\ new_segments' = Tracked(new_segments, key, inserted)
    /\ paired' = p
    /\ IF DebugLimitReached(seg_stats.new + p.new)
       THEN /\ seg_stats' = Folded(seg_stats, p)
            /\ spc' = "seg_done"
            /\ trouble' = t \cup {"debug"}
            /\ UNCHANGED ki
       ELSE /\ spc' = "seg_pair"
            /\ ki' = ki + 1
            /\ trouble' = t
            /\ UNCHANGED seg_stats

\* insert_segment turning a unique violation into an overwrite of the row
RejectDuplicate_Overwrite(rows, record) ==
    {r \in rows : ~(r.session_id = record.session_id
                    /\ r.segment_number = record.segment_number)} \cup {record}

\* insert_segment on psycopg2.errors.UniqueViolation: rollback
RejectDuplicate(rows, record) == rows

\* scan_segments: the record and insert_segment
SegInsert ==
    /\ spc = "seg_insert"
    /\ LET session_id == valid_sessions[si].name
           record == SegmentRecord(session_id, items[ki], 1)
           key == <<session_id, items[ki].segment_number>>
       IN
       \/ \* execute and commit
          /\ conn # "aborted"
          /\ ~is_segment_exists(session_id, items[ki].segment_number)
          /\ db_segments' = db_segments \cup {record}
          /\ committed' = committed \cup {key}
          /\ AfterSegInsert(key, TRUE, "")
       \/ \* psycopg2.errors.UniqueViolation: rollback, False
          /\ conn # "aborted"
          /\ is_segment_exists(session_id, items[ki].segment_number)
          /\ db_segments' = RejectDuplicate(db_segments, record)
          /\ UNCHANGED committed
          /\ AfterSegInsert(key, FALSE, "unique")
       \/ \* any other error: rollback, False
          /\ UNCHANGED <<db_segments, committed>>
          /\ AfterSegInsert(key, FALSE, "database")
    /\ conn' = "idle"
    /\ UNCHANGED <<args, db_devices, db_sessions, device_config, run, di,
                   valid_sessions, si, stats, first>>
    /\ UNCHANGED <<mode, items, others, returncode, notice>>

\* another info_scan process over the same bucket commits the row this run
\* has looked up and not found
OtherScan ==
    /\ Cardinality(others.sessions) + Cardinality(others.segments) < MaxOthers
    /\ \/ /\ spc = "insert"
          /\ ~is_session_exists(valid_sessions[si].name)
          /\ others' = [others EXCEPT !.sessions = @ \cup {valid_sessions[si].name}]
          /\ db_sessions' = CommitSession(db_sessions,
                  prepare_session_record(DevicePrefixes[di], valid_sessions[si]))
          /\ UNCHANGED db_segments
       \/ /\ spc = "seg_insert"
          /\ ~is_segment_exists(valid_sessions[si].name, items[ki].segment_number)
          /\ others' = [others EXCEPT !.segments =
                           @ \cup {<<valid_sessions[si].name, items[ki].segment_number>>}]
          /\ db_segments' = db_segments \cup
                  {SegmentRecord(valid_sessions[si].name, items[ki], 0)}
          /\ UNCHANGED db_sessions
    /\ UNCHANGED <<args, db_devices, conn, device_config, run, spc, di,
                   valid_sessions, si, stats, trouble, first>>
    /\ UNCHANGED <<mode, new_segments, seg_stats, items, ki, paired, committed,
                   returncode, notice>>

\* main: scan_metadata is called in the modes "all" and "metadata"
MainMetadata == mode \in {"all", "metadata"}

\* main: scan_segments is called in the modes "all" and "segments"
MainSegments ==
    /\ \/ mode = "segments" /\ spc = "list"
       \/ mode = "all" /\ spc = "done"
    /\ spc' = "seg_list"
    /\ di' = 0
    /\ valid_sessions' = <<>>
    /\ si' = 0
    /\ UNCHANGED <<args, db_devices, db_sessions, conn, device_config, run,
                   stats, trouble, first>>
    /\ UNCHANGED segVars

\* main: the summary or the except clause, the finally clause, and the end of
\* the process
MainExit ==
    /\ \/ mode = "metadata" /\ spc = "done"
       \/ spc = "seg_done"
       \/ spc = "failed"
    /\ conn' = "closed"
    /\ returncode' = 0
    /\ spc' = "exited"
    /\ UNCHANGED <<args, db_devices, db_sessions, device_config, run, di,
                   valid_sessions, si, stats, trouble, first>>
    /\ UNCHANGED <<mode, db_segments, new_segments, seg_stats, items, ki,
                   paired, committed, others, notice>>

\* TaskExecutor._run_scan: the notice chosen by result.returncode
ScanNotice ==
    /\ spc = "exited"
    /\ notice' = IF returncode = 0 THEN "success" ELSE "failure"
    /\ spc' = "notified"
    /\ UNCHANGED <<args, db_devices, db_sessions, conn, device_config, run, di,
                   valid_sessions, si, stats, trouble, first>>
    /\ UNCHANGED <<mode, db_segments, new_segments, seg_stats, items, ki,
                   paired, committed, others, returncode>>

\* Session rows of an earlier scan
StoredSessions ==
    {SessionRecord("d1", SessionPrefixes("d1")[i], StoredRev) : i \in 1..3}
        \cup {SessionRecord("d3", SessionPrefixes("d3")[1], StoredRev)}

\* Segment rows of an earlier scan: the two pairs of s1, one of them stored
\* with the sizes get_object_size gave when head_object failed
StoredSegments ==
    {SegmentRecord("s1", SegmentItems(Objects("s1"))[1], 0),
     SegmentRecord("s1", SegmentItems(Objects("s1"))[2], 1)}

\* the database and the command line of the run
RunInit ==
    /\ mode \in {"all", "metadata", "segments"}
    /\ \E f \in {"", "d1"}, debug \in BOOLEAN :
          args = [start_date |-> 2, end_date |-> 2, device_id |-> f,
                  debug |-> debug]
    /\ \E d3 \in {DeviceRow("d3", FALSE, FALSE), DeviceRow("d3", TRUE, TRUE)} :
          db_devices = {DeviceRow("d1", TRUE, FALSE), d3}
    /\ \E db \in {<<{}, {}>>, <<StoredSessions, {}>>,
                   <<StoredSessions, StoredSegments>>} :
          db_sessions = db[1] /\ db_segments = db[2]
    /\ conn = "closed"
    /\ device_config = {}
    /\ run = 1
    /\ spc = "start"
    /\ di = 0
    /\ valid_sessions = <<>>
    /\ si = 0
    /\ stats = NoStats
    /\ trouble = {}
    /\ first = NoFirst
    /\ new_segments = {}
    /\ seg_stats = NoSegStats
    /\ items = <<>>
    /\ ki = 0
    /\ paired = NoPaired
    /\ committed = {}
    /\ others = NoOthers
    /\ returncode = -1
    /\ notice = "none"
    /\ RetryOff
    /\ ExecutorInit
    /\ AuxOff
    /\ pc = [t \in Threads |-> "off"]
    /\ ccmd = [t \in Threads |-> NoCmd]
    /\ cres = [t \in Threads |-> "none"]
    /\ ncalls = 0
    /\ cconc = [t \in Harness |-> {}]
    /\ PollerOff

RunNext ==
    \/ (ScanStart /\ UNCHANGED <<svcVars, segVars, retryVars, auxVars>>)
    \/ (MainMetadata /\ MetaListDevices /\ UNCHANGED <<svcVars, segVars, retryVars, auxVars>>)
    \/ (MetaDevice /\ UNCHANGED <<svcVars, segVars, retryVars, auxVars>>)
    \/ (MetaListSessions /\ UNCHANGED <<svcVars, segVars, retryVars, auxVars>>)
    \/ (MetaSessionCheck /\ UNCHANGED <<svcVars, segVars, retryVars, auxVars>>)
    \/ (MetaSessionFetch /\ UNCHANGED <<svcVars, segVars, retryVars, auxVars>>)
    \/ (MetaSessionInsert /\ UNCHANGED <<svcVars, segVars, retryVars, auxVars>>)
    \/ (MainSegments /\ UNCHANGED <<svcVars, retryVars, auxVars>>)
    \/ (SegListDevices /\ UNCHANGED <<svcVars, retryVars, auxVars>>)
    \/ (SegDevice /\ UNCHANGED <<svcVars, retryVars, auxVars>>)
    \/ (SegListSessions /\ UNCHANGED <<svcVars, retryVars, auxVars>>)
    \/ (SegSessionCheck /\ UNCHANGED <<svcVars, retryVars, auxVars>>)
    \/ (SegListObjects /\ UNCHANGED <<svcVars, retryVars, auxVars>>)
    \/ (SegPair /\ UNCHANGED <<svcVars, retryVars, auxVars>>)
    \/ (SegInsert /\ UNCHANGED <<svcVars, retryVars, auxVars>>)
    \/ (OtherScan /\ UNCHANGED <<svcVars, retryVars, auxVars>>)
    \/ (MainExit /\ UNCHANGED <<svcVars, retryVars, auxVars>>)
    \/ (ScanNotice /\ UNCHANGED <<svcVars, retryVars, auxVars>>)

RunSpec == RunInit /\ [][RunNext]_vars

\* ------------------------------ info_scan: remote-storage calls and retries
\* stop_after_attempt(5)
MaxAttempts == 5

\* how many requests in a row may meet a transient error
MaxFails == 6

\* the remote-storage calls of the scan: the three decorated functions, and
\* bucket.object_exists and bucket.get_object_to_file as scan_metadata calls
\* them
RemoteOps == {"list_prefixes", "list_objects", "get_object_size",
              "object_exists", "get_object_to_file"}

\* the call goes through a function under @retry(...)
Decorated(o) == o \in {"list_prefixes", "list_objects", "get_object_size"}

\* the function body catches the exception of the request and returns 0
Swallows(o) == o = "get_object_size"

\* one request of the call; its error is swallowed, retried by tenacity, or
\* raised to the caller
Attempt ==
    /\ result = "pending"
    /\ attempts' = attempts + 1
    /\ result' =
          IF attempts + 1 > fails THEN "ok"
          ELSE IF Swallows(op) THEN "zero"
          ELSE IF Decorated(op) /\ attempts + 1 < MaxAttempts THEN "pending"
          ELSE "raised"
    /\ UNCHANGED <<op, fails>>

\* a call of one operation whose first requests meet a transient error
RetryInit ==
    /\ op \in RemoteOps
    /\ fails \in 0..MaxFails
    /\ attempts = 0
    /\ result = "pending"
    /\ ScanOff
    /\ ExecutorInit
    /\ AuxOff
    /\ pc = [t \in Threads |-> "off"]
    /\ ccmd = [t \in Threads |-> NoCmd]
    /\ cres = [t \in Threads |-> "none"]
    /\ ncalls = 0
    /\ cconc = [t \in Harness |-> {}]
    /\ PollerOff

RetryNext == Attempt /\ UNCHANGED <<svcVars, scanVars, segVars, auxVars>>

RetrySpec == RetryInit /\ [][RetryNext]_vars

\* ============================================== one job and its CSV file
\* A worker thread of the executor from subprocess.run to the end of its try
\* block, together with the directory ExportedCSV that the subprocess writes
\* to and _send_latest_csv reads. File names are sequences of the words that
\* "_" separates; the trailing timestamp of a name is the file's mtime.

\* ticks of the wall clock a job is followed for
MaxTime == 3
\* age below which _send_latest_csv sends a file (300 s in the source,
\* scaled down to ticks)
RecentWindow == 2

CsvFile(name, mtime) == [name |-> name, mtime |-> mtime]

\* str.startswith on names
StartsWith(name, prefix) ==
    /\ Len(prefix) <= Len(name)
    /\ SubSeq(name, 1, Len(prefix)) = prefix

\* export_formatted_csv.parse_args: --format defaults to "internal"
DefaultFormat == "internal"

\* export_formatted_csv.main: format_prefix[args.format]
FormatPrefix(format) ==
    CASE format = "raw" -> "raw"
      [] format = "internal" -> "internal"
      [] format = "scale" -> "scale"

\* export_formatted_csv.main: output_filename without --output
ExportFilename(format, export_all) ==
    IF export_all THEN <<FormatPrefix(format), "all">>
                  ELSE <<FormatPrefix(format), "start", "end">>

\* info_scan.main: csv_filename from DEFAULT_CSV_FILENAME "oss_mp4_qa.csv"
ScanFilename == <<"oss", "mp4", "qa">>

\* the prefix argument of _send_latest_csv: _run_scan passes none (""),
\* _run_export passes "formatted"
SendPrefix(kind) == IF kind = "export" THEN <<"formatted">> ELSE <<>>

\* files left in ExportedCSV by earlier jobs and by runs from a shell
EarlierFiles ==
    { CsvFile(ExportFilename(DefaultFormat, TRUE), 0),
      CsvFile(ScanFilename, 0),
      CsvFile(<<"formatted", "by", "hand">>, 0) }

JobInit ==
    /\ job \in [kind : {"scan", "export"}, export_all : BOOLEAN]
    /\ job.kind = "scan" => ~job.export_all
    /\ jpc = "subprocess"
    /\ now = 1
    /\ csv_dir \in SUBSET EarlierFiles
    /\ jrc = -1
    /\ written = NoCsv
    /\ sent = <<>>
    /\ ParseOff
    /\ RemoteInit
    /\ MoreOff
    /\ ScanOff
    /\ RetryOff
    /\ ExecutorInit
    /\ pc = [t \in Threads |-> "off"]
    /\ ccmd = [t \in Threads |-> NoCmd]
    /\ cres = [t \in Threads |-> "none"]
    /\ ncalls = 0
    /\ cconc = [t \in Harness |-> {}]
    /\ PollerOff

\* time passes while the subprocess runs
Tick ==
    /\ jpc = "subprocess"
    /\ now < MaxTime
    /\ now' = now + 1
    /\ UNCHANGED <<job, jpc, csv_dir, jrc, written, sent>>

\* the subprocess wrote file f (or none) and exited with code rc
Exited(f, rc) ==
    /\ written' = f
    /\ csv_dir' = IF f = NoCsv THEN csv_dir ELSE csv_dir \cup {f}
    /\ jrc' = rc
    /\ jpc' = "report"
    /\ UNCHANGED <<job, now, sent>>

\* python -m scanner.scan.export_formatted_csv [--all | --start-date
\* --end-date]: rows exported to a new file; no rows, a failed query or a
\* failed connection (logged, main returns); the interpreter or an import
\* fails
ExportSubprocess ==
    /\ jpc = "subprocess"
    /\ job.kind = "export"
    /\ \/ Exited(CsvFile(ExportFilename(DefaultFormat, job.export_all), now), 0)
       \/ Exited(NoCsv, 0)
       \/ Exited(NoCsv, 1)

\* python -m scanner.scan.info_scan --device-id --start-date --end-date
\* (export_csv defaults to True): new segments exported to a new file; no
\* new segment or a failure caught by main; the interpreter or an import
\* fails
ScanSubprocess ==
    /\ jpc = "subprocess"
    /\ job.kind = "scan"
    /\ \/ Exited(CsvFile(ScanFilename, now), 0)
       \/ Exited(NoCsv, 0)
       \/ Exited(NoCsv, 1)

\* if result.returncode == 0: success notice, then _send_latest_csv;
\* else: failure notice
JobReport ==
    /\ jpc = "report"
    /\ jpc' = IF jrc = 0 THEN "csv" ELSE "end"
    /\ UNCHANGED <<job, now, csv_dir, jrc, written, sent>>

\* _send_latest_csv: csv_files filtered by the prefix
Candidates(prefix) == {f \in csv_dir : StartsWith(f.name, prefix)}

\* max(csv_files, key=getmtime)
IsLatest(f, files) == f \in files /\ \A g \in files : g.mtime <= f.mtime

\* (datetime.now().timestamp() - os.path.getmtime(csv_path)) < 300
IsRecent(f) == now - f.mtime < RecentWindow

\* _send_latest_csv(chat_id, project_root, prefix)
SendLatestCsv ==
    /\ jpc = "csv"
    /\ LET csv_files == Candidates(SendPrefix(job.kind)) IN
       IF csv_files = {}
       THEN UNCHANGED sent
       ELSE \E latest_csv \in csv_files :
               /\ IsLatest(latest_csv, csv_files)
               /\ sent' = IF IsRecent(latest_csv)
                           THEN Append(sent, latest_csv) ELSE sent
    /\ jpc' = "end"
    /\ UNCHANGED <<job, now, csv_dir, jrc, written>>

JobNext ==
    \/ (Tick /\ UNCHANGED <<svcVars, ingestVars, parseVars, doc_rev, moreVars>>)
    \/ (ExportSubprocess /\ UNCHANGED <<svcVars, ingestVars, parseVars, doc_rev, moreVars>>)
    \/ (ScanSubprocess /\ UNCHANGED <<svcVars, ingestVars, parseVars, doc_rev, moreVars>>)
    \/ (JobReport /\ UNCHANGED <<svcVars, ingestVars, parseVars, doc_rev, moreVars>>)
    \/ (SendLatestCsv /\ UNCHANGED <<svcVars, ingestVars, parseVars, doc_rev, moreVars>>)

JobSpec == JobInit /\ [][JobNext]_vars

\* ================================================ command parsing
\* _handle_message on one message text. A text is its first word and the
\* whitespace-separated words after it (text[5:].strip().split()).

\* words after the command word
MaxParts == 3

\* date.today()
Today == 30

Heads == {"/scan", "/SCAN", "/export", "help", "hello"}

Tokens == {"7393", "all", "2025-01-15", "2025-1-15", "2025-01-20",
           "2025-13-40", "update", "a/b", "@bot"}

\* str.lower on first words
Lower(head) == IF head = "/SCAN" THEN "/scan" ELSE head

\* re.match(r'^[\w-]+$', device_id)
MatchesWord(tok) ==
    tok \notin {"a/b", "@bot", "--device=7393", "--start=2025-01-15",
                "--end=2025-01-20"}

\* 'date' in device_id.lower()
ContainsDate(tok) == tok = "update"

\* datetime.strptime(tok, "%Y-%m-%d").date(): the day, or ValueError
Strptime(tok) ==
    CASE tok \in {"2025-01-15", "2025-1-15"} -> [ok |-> TRUE, date |-> 15]
      [] tok = "2025-01-20" -> [ok |-> TRUE, date |-> 20]
      [] OTHER -> [ok |-> FALSE, date |-> 0]

ScanCommand(device_id, start_date, end_date) ==
    [kind |-> "scan", device_id |-> device_id, start_date |-> start_date,
     end_date |-> end_date, export_all |-> FALSE]

ExportCommand(start_date, end_date, export_all) ==
    [kind |-> "export", device_id |-> "", start_date |-> start_date,
     end_date |-> end_date, export_all |-> export_all]

\* parse_scan_command without the test for 'date' in the device token
parse_scan_command_NoDateTest(t) ==
    LET parts == t.parts IN
    IF Lower(t.head) # "/scan" THEN NoCommand
    ELSE IF parts = <<>> THEN NoCommand
    ELSE IF ~MatchesWord(parts[1]) THEN NoCommand
    ELSE IF Len(parts) = 1 THEN ScanCommand(parts[1], Today, Today)
    ELSE IF ~Strptime(parts[2]).ok THEN NoCommand
    ELSE IF Len(parts) = 2
         THEN ScanCommand(parts[1], Strptime(parts[2]).date, Strptime(parts[2]).date)
    ELSE IF ~Strptime(parts[3]).ok THEN NoCommand
    ELSE ScanCommand(parts[1], Strptime(parts[2]).date, Strptime(parts[3]).date)

parse_scan_command(t) ==
    LET parts == t.parts IN
    IF Lower(t.head) # "/scan" THEN NoCommand
    ELSE IF parts = <<>> THEN NoCommand
    ELSE IF ~MatchesWord(parts[1]) \/ ContainsDate(parts[1]) THEN NoCommand
    ELSE IF Len(parts) = 1 THEN ScanCommand(parts[1], Today, Today)
    ELSE IF ~Strptime(parts[2]).ok THEN NoCommand
    ELSE IF Len(parts) = 2
         THEN ScanCommand(parts[1], Strptime(parts[2]).date, Strptime(parts[2]).date)
    ELSE IF ~Strptime(parts[3]).ok THEN NoCommand
    ELSE ScanCommand(parts[1], Strptime(parts[2]).date, Strptime(parts[3]).date)

parse_export_command(t) ==
    LET parts == t.parts IN
    IF Lower(t.head) # "/export" THEN NoCommand
    ELSE IF parts = <<"all">> THEN ExportCommand(NoDate, NoDate, TRUE)
    ELSE IF parts = <<>> THEN ExportCommand(Today, Today, FALSE)
    ELSE IF ~Strptime(parts[1]).ok THEN NoCommand
    ELSE IF Len(parts) = 1
         THEN ExportCommand(Strptime(parts[1]).date, Strptime(parts[1]).date, FALSE)
    ELSE IF ~Strptime(parts[2]).ok THEN NoCommand
    ELSE ExportCommand(Strptime(parts[1]).date, Strptime(parts[2]).date, FALSE)

\* "@" in text
HasAt(t) == \E i \in DOMAIN t.parts : t.parts[i] = "@bot"

\* text_lower in ["help", "帮助", "?", "？"]
IsHelpWord(t) == Lower(t.head) = "help" /\ t.parts = <<>>

ParseInit ==
    /\ \E head \in Heads, n \in 0..MaxParts :
          \E parts \in [1..n -> Tokens] : text = [head |-> head, parts |-> parts]
    /\ tpc = "new"
    /\ parsed = NoCommand
    /\ answer = "none"
    /\ called = NoCommand
    /\ JobOff
    /\ RemoteInit
    /\ MoreOff
    /\ ScanOff
    /\ RetryOff
    /\ ExecutorInit
    /\ pc = [t \in Threads |-> "off"]
    /\ ccmd = [t \in Threads |-> NoCmd]
    /\ cres = [t \in Threads |-> "none"]
    /\ ncalls = 0
    /\ cconc = [t \in Harness |-> {}]
    /\ PollerOff

\* the help branch, and a text that is no command: nothing is sent
HandleOther ==
    /\ tpc = "new"
    /\ \/ /\ HasAt(text) \/ IsHelpWord(text)
          /\ answer' = "help"
       \/ /\ ~(HasAt(text) \/ IsHelpWord(text))
          /\ Lower(text.head) \notin {"/scan", "/export"}
          /\ answer' = "none"
    /\ tpc' = "handled"
    /\ UNCHANGED <<text, parsed, called>>

\* a command cmd was parsed, or None: usage reply or the try_execute_* call
Dispatch(cmd, usage) ==
    /\ parsed' = cmd
    /\ IF cmd = NoCommand
       THEN answer' = usage /\ called' = NoCommand
       ELSE answer' = "none" /\ called' = cmd
    /\ tpc' = "handled"
    /\ UNCHANGED text

\* the /scan branch
HandleScan ==
    /\ tpc = "new"
    /\ ~(HasAt(text) \/ IsHelpWord(text))
    /\ Lower(text.head) = "/scan"
    /\ Dispatch(parse_scan_command(text), "scan_usage")

\* the /export branch
HandleExport ==
    /\ tpc = "new"
    /\ ~(HasAt(text) \/ IsHelpWord(text))
    /\ Lower(text.head) = "/export"
    /\ Dispatch(parse_export_command(text), "export_usage")

ParseNext ==
    \/ (HandleOther /\ UNCHANGED <<svcVars, ingestVars, jobVars, doc_rev, moreVars>>)
    \/ (HandleScan /\ UNCHANGED <<svcVars, ingestVars, jobVars, doc_rev, moreVars>>)
    \/ (HandleExport /\ UNCHANGED <<svcVars, ingestVars, jobVars, doc_rev, moreVars>>)

ParseSpec == ParseInit /\ [][ParseNext]_vars

\* ================================================ the date filter
\* The test both scanners make before they consider a session folder. The
\* text of a session_id is its first word, the digits of its date, and
\* what follows the time: "session_20250115_051033_882605" is
\* [head |-> "session", ymd |-> <<2025, 1, 15>>, tail |-> "digits"].

SessionId(head, ymd, tail) == [head |-> head, ymd |-> ymd, tail |-> tail]

SessionIds ==
    { SessionId("session", <<2025, 1, 15>>, "digits"),
      SessionId("session", <<2025, 1, 20>>, "digits"),
      SessionId("session", <<2025, 13, 40>>, "digits"),
      SessionId("session", <<2025, 2, 30>>, "digits"),
      SessionId("session", <<2025, 1, 15>>, "letters"),
      SessionId("session", <<>>, "letters"),
      SessionId("logs", <<>>, "") }

\* re.match(r"^session_(\d{4})(\d{2})(\d{2})_(\d{2})(\d{2})(\d{2})_\d+$")
MatchesSessionPattern(id) ==
    id.head = "session" /\ Len(id.ymd) = 3 /\ id.tail = "digits"

\* days of a month of 2025
DaysIn(month) ==
    IF month = 2 THEN 28 ELSE IF month \in {4, 6, 9, 11} THEN 30 ELSE 31

\* date(year, month, day) raises ValueError
IsCalendarDate(ymd) ==
    /\ ymd[2] \in 1..12
    /\ ymd[3] \in 1..DaysIn(ymd[2])

\* a date object, ordered as dates are
DateObj(year, month, day) == year * 10000 + month * 100 + day

\* parse_session_id on the text of an id: the date object, or None
session_date_of(id) ==
    IF MatchesSessionPattern(id) /\ IsCalendarDate(id.ymd)
    THEN DateObj(id.ymd[1], id.ymd[2], id.ymd[3])
    ELSE NoDate

\* --start-date / --end-date: None or a date
RangeDates == {NoDate, DateObj(2025, 1, 15), DateObj(2025, 1, 16), DateObj(2025, 1, 20)}

FilterInit ==
    /\ sid \in SessionIds
    /\ frange \in [start_date : RangeDates, end_date : RangeDates]
    /\ verdict = [info_scan |-> "?", metadata_scan |-> "?"]
    /\ ListOff
    /\ NoteOff
    /\ tparsed = NotParsed
    /\ SizeOff
    /\ JobOff
    /\ ParseOff
    /\ RemoteInit
    /\ IdleService
    /\ PollerOff
    /\ ScanOff
    /\ RetryOff

YesNo(b) == IF b THEN "yes" ELSE "no"

\* info_scan.scan_metadata and scan_segments: the head of the session loop
InfoScanFilter ==
    /\ verdict.info_scan = "?"
    /\ verdict' = [verdict EXCEPT !.info_scan =
          YesNo(/\ sid.head = "session"
                /\ is_date_in_range(session_date_of(sid),
                                    frange.start_date, frange.end_date))]
    /\ UNCHANGED <<sid, frange>>

\* metadata_scan.process_oss_metadata: startswith("session_"), then
\* `if date_filter_active and not is_date_in_range(...)`
MetadataScanFilter ==
    /\ verdict.metadata_scan = "?"
    /\ LET date_filter_active ==
               frange.start_date # NoDate \/ frange.end_date # NoDate
       IN verdict' = [verdict EXCEPT !.metadata_scan =
             YesNo(/\ sid.head = "session"
                   /\ ~(date_filter_active
                          /\ ~is_date_in_range(session_date_of(sid),
                                     frange.start_date, frange.end_date)))]
    /\ UNCHANGED <<sid, frange>>

FilterNext ==
    \/ (InfoScanFilter /\ UNCHANGED <<svcVars, ingestVars, jobVars, parseVars, doc_rev,
                                    listVars, noteVars, tparsed, sizeVars>>)
    \/ (MetadataScanFilter /\ UNCHANGED <<svcVars, ingestVars, jobVars, parseVars, doc_rev,
                                        listVars, noteVars, tparsed, sizeVars>>)

FilterSpec == FilterInit /\ [][FilterNext]_vars

\* ================================================ the listing calls
\* list_objects and list_prefixes on one prefix of the bucket. The entries
\* under the prefix are numbered 1..nkeys in the order the bucket lists them.

\* entries the bucket holds under one prefix
MaxKeys == 5

\* max_keys of one list_objects_v2 request (1000 in the source, scaled down)
PageKeys == 2

\* every entry under the prefix, once, in listing order
AllKeys == [i \in 1..nkeys |-> i]

\* result.object_list / result.prefix_list of the request that starts after
\* `token` entries
Page(token) ==
    [i \in 1..(IF nkeys - token < PageKeys THEN nkeys - token ELSE PageKeys)
        |-> token + i]

\* result.is_truncated
IsTruncated(token) == token + PageKeys < nkeys

\* the local list of a new attempt that keeps what the failed one gathered
FirstObjects_Kept(objs) == objs

\* the local list of a new attempt: the function body starts again
FirstObjects(objs) == <<>>

ListInit ==
    /\ lop \in {"list_objects", "list_prefixes"}
    /\ nkeys \in 0..MaxKeys
    /\ objects = <<>>
    /\ continuation_token = 0
    /\ tries = 1
    /\ lpc = "request"
    /\ FilterOff
    /\ NoteOff
    /\ tparsed = NotParsed
    /\ SizeOff
    /\ JobOff
    /\ ParseOff
    /\ RemoteInit
    /\ IdleService
    /\ PollerOff
    /\ ScanOff
    /\ RetryOff

\* list_objects: one pass of the while loop whose request succeeds
ListObjectsPage ==
    /\ lop = "list_objects"
    /\ lpc = "request"
    /\ objects' = objects \o Page(continuation_token)
    /\ IF IsTruncated(continuation_token)
       THEN /\ continuation_token' = continuation_token + PageKeys
            /\ lpc' = "request"
       ELSE /\ lpc' = "returned"
            /\ UNCHANGED continuation_token
    /\ UNCHANGED <<lop, nkeys, tries>>

\* list_prefixes: its one request succeeds
ListPrefixesPage ==
    /\ lop = "list_prefixes"
    /\ lpc = "request"
    /\ objects' = Page(0)
    /\ lpc' = "returned"
    /\ UNCHANGED <<lop, nkeys, continuation_token, tries>>

\* a request raises: tenacity calls the function again, or gives up after
\* stop_after_attempt(5)
ListRequestFails ==
    /\ lpc = "request"
    /\ IF tries < MaxAttempts
       THEN /\ tries' = tries + 1
            /\ objects' = FirstObjects(objects)
            /\ continuation_token' = 0
            /\ UNCHANGED lpc
       ELSE /\ lpc' = "raised"
            /\ UNCHANGED <<tries, objects, continuation_token>>
    /\ UNCHANGED <<lop, nkeys>>

ListNext ==
    \/ (ListObjectsPage /\ UNCHANGED <<svcVars, ingestVars, jobVars, parseVars, doc_rev,
                                     filterVars, noteVars, tparsed, sizeVars>>)
    \/ (ListPrefixesPage /\ UNCHANGED <<svcVars, ingestVars, jobVars, parseVars, doc_rev,
                                      filterVars, noteVars, tparsed, sizeVars>>)
    \/ (ListRequestFails /\ UNCHANGED <<svcVars, ingestVars, jobVars, parseVars, doc_rev,
                                      filterVars, noteVars, tparsed, sizeVars>>)

ListSpec == ListInit /\ [][ListNext]_vars

\* the call is running: its next request returns or raises
ListLive == ListSpec /\ WF_vars(ListNext)

\* ================================================ the success notice
\* One job whose subprocess exits with return code 0: what the subprocess
\* logged, on which stream, and the statistics the executor puts into the
\* success notice. A line of output is the statistic it names and its number.

\* largest count a run reports
MaxCount == 2

\* re.search found no match / the text "未知" of the export notice
Unknown == -1

\* logging.basicConfig(level, format, datefmt): no stream and no handlers are
\* given, so the root logger gets a StreamHandler on sys.stderr
LogStream == "stderr"

StatLine(key, value) == [key |-> key, value |-> value]

\* the statistics lines of one run. info_scan: log_stats of the Metadata
\* phase and of the Segment phase, and export_to_csv's line when there are
\* new segments; export_formatted_csv: the line of export_csv
LoggedLines(kind, rep) ==
    IF kind = "scan"
    THEN <<StatLine("new_sessions", rep.sessions),
           StatLine("new_segments", rep.segments)>>
         \o (IF rep.segments > 0 THEN <<StatLine("export_rows", rep.rows)>>
             ELSE <<>>)
    ELSE <<StatLine("export_rows", rep.rows)>>

\* re.search(pattern, output): the number of the first line naming the key
FirstMatch(output, key) ==
    LET hits == {i \in DOMAIN output : output[i].key = key} IN
    IF hits = {} THEN Unknown
    ELSE output[CHOOSE i \in hits : \A j \in hits : i <= j].value

\* TaskExecutor._extract_stats
extract_stats(output) ==
    LET Found(key) ==
            IF FirstMatch(output, key) = Unknown THEN <<>>
            ELSE <<StatLine(key, FirstMatch(output, key))>>
    IN Found("new_sessions") \o Found("new_segments") \o Found("export_rows")

NoteInit ==
    /\ nkind \in {"scan", "export"}
    /\ reported \in [sessions : 0..MaxCount, segments : 0..MaxCount,
                     rows : 0..MaxCount]
    /\ streams = [stdout |-> <<>>, stderr |-> <<>>]
    /\ npc = "run"
    /\ stats_msg = <<>>
    /\ FilterOff
    /\ ListOff
    /\ tparsed = NotParsed
    /\ SizeOff
    /\ JobOff
    /\ ParseOff
    /\ RemoteInit
    /\ IdleService
    /\ PollerOff
    /\ ScanOff
    /\ RetryOff

\* subprocess.run(cmd, capture_output=True, text=True) returns with
\* returncode 0
SubprocessExits ==
    /\ npc = "run"
    /\ streams' = [streams EXCEPT ![LogStream] = LoggedLines(nkind, reported)]
    /\ npc' = "exited"
    /\ UNCHANGED <<nkind, reported, stats_msg>>

\* _run_scan: stats_msg = self._extract_stats(result.stdout)
ScanSuccessNotice ==
    /\ npc = "exited"
    /\ nkind = "scan"
    /\ stats_msg' = extract_stats(streams.stdout)
    /\ npc' = "notified"
    /\ UNCHANGED <<nkind, reported, streams>>

\* _run_export: row_count out of result.stdout, or "未知"
ExportSuccessNotice ==
    /\ npc = "exited"
    /\ nkind = "export"
    /\ stats_msg' = <<StatLine("export_rows",
                               FirstMatch(streams.stdout, "export_rows"))>>
    /\ npc' = "notified"
    /\ UNCHANGED <<nkind, reported, streams>>

NoteNext ==
    \/ (SubprocessExits /\ UNCHANGED <<svcVars, ingestVars, jobVars, parseVars, doc_rev,
                                     filterVars, listVars, tparsed, sizeVars>>)
    \/ (ScanSuccessNotice /\ UNCHANGED <<svcVars, ingestVars, jobVars, parseVars, doc_rev,
                                       filterVars, listVars, tparsed, sizeVars>>)
    \/ (ExportSuccessNotice /\ UNCHANGED <<svcVars, ingestVars, jobVars, parseVars, doc_rev,
                                         filterVars, listVars, tparsed, sizeVars>>)

NoteSpec == NoteInit /\ [][NoteNext]_vars

\* ================================================ the two /scan parsers
\* scan_service.parse_scan_command and the parse_scan_command defined in
\* test_scan_service.py, called on the same text.

TestHeads == {"/scan", "/SCAN", "hello"}

KeyTokens == {"7393", "2025-01-15", "2025-1-15", "2025-01-20", "2025-13-40",
              "--device", "--device=7393", "--start", "--start=2025-01-15",
              "--end", "--end=2025-01-20"}

\* a word of the form --key=value
Inline(tok) ==
    CASE tok = "--device=7393" -> [key |-> "--device", value |-> "7393"]
      [] tok = "--start=2025-01-15" -> [key |-> "--start", value |-> "2025-01-15"]
      [] tok = "--end=2025-01-20" -> [key |-> "--end", value |-> "2025-01-20"]
      [] OTHER -> [key |-> "", value |-> ""]

\* the words that begin with \d{4}-\d{2}-\d{2}
DateShaped == {"2025-01-15", "2025-01-20", "2025-13-40"}

\* the words \S+ matches: every word
AnyWord == KeyTokens \cup Tokens

\* re.search(key + r'[=\s]+(...)', args_text) with a group that matches the
\* words of `shaped`: group(1) of the leftmost match, or "" when there is none
KeyMatch(parts, key, shaped) ==
    LET hits == {i \in DOMAIN parts :
                    \/ Inline(parts[i]).key = key /\ Inline(parts[i]).value \in shaped
                    \/ parts[i] = key /\ i < Len(parts) /\ parts[i + 1] \in shaped}
        leftmost == CHOOSE i \in hits : \A j \in hits : i <= j
    IN IF hits = {} THEN ""
       ELSE IF parts[leftmost] = key THEN parts[leftmost + 1]
       ELSE Inline(parts[leftmost]).value

\* test_scan_service.parse_scan_command
test_parse_scan_command(t) ==
    LET parts == t.parts
        device_match == KeyMatch(parts, "--device", AnyWord)
        start_match == KeyMatch(parts, "--start", DateShaped)
        end_match == KeyMatch(parts, "--end", DateShaped)
        start_date == IF start_match # "" THEN Strptime(start_match)
                      ELSE [ok |-> TRUE, date |-> Today]
        end_date == IF end_match # "" THEN Strptime(end_match) ELSE start_date
    IN
    IF Lower(t.head) # "/scan" THEN NoCommand
    ELSE IF parts = <<>> THEN NoCommand
    ELSE IF device_match # ""
         THEN IF start_date.ok /\ end_date.ok
              THEN ScanCommand(device_match, start_date.date, end_date.date)
              ELSE NoCommand
    \* the positional form: the statements of scan_service.parse_scan_command
    ELSE parse_scan_command(t)

TestInit ==
    /\ \E head \in TestHeads, n \in 0..MaxParts :
          \E parts \in [1..n -> KeyTokens] : text = [head |-> head, parts |-> parts]
    /\ tpc = "new"
    /\ parsed = NoCommand
    /\ answer = "none"
    /\ called = NoCommand
    /\ tparsed = NotParsed
    /\ FilterOff
    /\ ListOff
    /\ NoteOff
    /\ SizeOff
    /\ JobOff
    /\ RemoteInit
    /\ IdleService
    /\ PollerOff
    /\ ScanOff
    /\ RetryOff

\* the service's parser is called on the text
ServiceParse ==
    /\ tpc = "new"
    /\ parsed' = parse_scan_command(text)
    /\ tpc' = "handled"
    /\ UNCHANGED <<text, answer, called, tparsed>>

\* test_parse_scan_command: result = parse_scan_command(input_text)
TestParse ==
    /\ tparsed = NotParsed
    /\ tparsed' = test_parse_scan_command(text)
    /\ UNCHANGED parseVars

TestNext ==
    \/ (ServiceParse /\ UNCHANGED <<svcVars, ingestVars, jobVars, doc_rev,
                                  filterVars, listVars, noteVars, sizeVars>>)
    \/ (TestParse /\ UNCHANGED <<svcVars, ingestVars, jobVars, doc_rev,
                               filterVars, listVars, noteVars, sizeVars>>)

TestSpec == TestInit /\ [][TestNext]_vars

\* ================================================ the sizes of a segment
\* scan_segments on one segment of a session: the size lookups of its down
\* file and its front file, and the row built from them.

\* largest content_length of a video object (0 is an empty object)
MaxSize == 2

Cameras == {"down", "front"}

\* get_object_size: head_object's content_length; the except clause in the
\* function body returns 0, so tenacity sees no exception to retry
get_object_size(camera) ==
    IF camera \in size_fails THEN 0 ELSE remote_size[camera]

SizeInit ==
    /\ remote_size \in [Cameras -> 0..MaxSize]
    /\ size_fails \in SUBSET Cameras
    /\ segments_dict = NoSizes
    /\ zpc = "sizes"
    /\ seg_row = NoSizes
    /\ FilterOff
    /\ ListOff
    /\ NoteOff
    /\ tparsed = NotParsed
    /\ JobOff
    /\ ParseOff
    /\ RemoteInit
    /\ IdleService
    /\ PollerOff
    /\ ScanOff
    /\ RetryOff

\* for obj_key in mp4_objects: the files of the segment, in listing order
RecordSize ==
    /\ zpc = "sizes"
    /\ \E camera \in Cameras :
          /\ segments_dict[camera] = -1
          /\ segments_dict' = [segments_dict EXCEPT ![camera] = get_object_size(camera)]
          /\ zpc' = IF \A c \in Cameras \ {camera} : segments_dict[c] # -1
                    THEN "insert" ELSE "sizes"
    /\ UNCHANGED <<remote_size, size_fails, seg_row>>

\* the record of the paired segment is inserted and committed
InsertSegmentRow ==
    /\ zpc = "insert"
    /\ seg_row' = segments_dict
    /\ zpc' = "done"
    /\ UNCHANGED <<remote_size, size_fails, segments_dict>>

\* insert_segment meets a database error: rollback, no row
InsertSegmentFails ==
    /\ zpc = "insert"
    /\ zpc' = "done"
    /\ UNCHANGED <<remote_size, size_fails, segments_dict, seg_row>>

SizeNext ==
    \/ (RecordSize /\ UNCHANGED <<svcVars, ingestVars, jobVars, parseVars, doc_rev,
                                filterVars, listVars, noteVars, tparsed>>)
    \/ (InsertSegmentRow /\ UNCHANGED <<svcVars, ingestVars, jobVars, parseVars, doc_rev,
                                      filterVars, listVars, noteVars, tparsed>>)
    \/ (InsertSegmentFails /\ UNCHANGED <<svcVars, ingestVars, jobVars, parseVars, doc_rev,
                                        filterVars, listVars, noteVars, tparsed>>)

SizeSpec == SizeInit /\ [][SizeNext]_vars

\* The thread scheduler runs every started worker and every caller that is
\* inside try_execute_*; subprocess.run returns or raises.
ExecLive ==
    /\ ExecSpec
    /\ WF_vars(WorkerStep /\ UNCHANGED <<ingestVars, auxVars>>)
    /\ \A c \in Harness :
          WF_vars(TryExecute(c) /\ UNCHANGED <<harnessVars, pollVars, ingestVars, auxVars>>)

\* =================================================================== claims
Active == {w \in DOMAIN workers : workers[w].pc # "done"}

Reserved == {c \in Threads : pc[c] = "spawn"}

Commands == {"scan", "export"}

\* C1: at most one job is in flight at any time (a worker thread that is
\* executing, or a flag reservation whose thread is about to be started),
\* and whenever one is in flight _is_running is true.
C1_SingleFlight ==
    /\ Cardinality(Active) + Cardinality(Reserved) <= 1
    /\ (Active # {} \/ Reserved # {}) => is_running

\* a call was rejected while a worker was executing
C1_Witness ==
    /\ Active # {}
    /\ \E c \in Harness : pc[c] = "ret" /\ cres[c] = "False"

\* both calls have returned, and d's call was pending on the idle executor
\* when c's call was issued
ConcurrentPair(c, d) ==
    /\ c # d
    /\ pc[c] = "ret"
    /\ pc[d] = "ret"
    /\ ccmd[d].id \in cconc[c]

ExactlyOneAccepted(c, d) ==
    \/ cres[c] = "True" /\ cres[d] = "False"
    \/ cres[c] = "False" /\ cres[d] = "True"

\* C2 as stated: of two calls issued concurrently on an idle executor
\* exactly one returns True and the other False.
C2_ExactlyOneAccepted ==
    \A c, d \in Harness : ConcurrentPair(c, d) => ExactlyOneAccepted(c, d)

\* C2 amended: of two calls issued concurrently on an idle executor exactly
\* one returns True and the other False, unless the accepted job has already
\* finished when the other call tests the flag: then both return True, one
\* after the other. Never do both return False.
C2_ExactlyOneUnlessFinished ==
    \A c, d \in Harness :
        ConcurrentPair(c, d) =>
            \/ ExactlyOneAccepted(c, d)
            \/ /\ cres[c] = "True"
               /\ cres[d] = "True"
               /\ \E w \in DOMAIN workers :
                     /\ workers[w].pc = "done"
                     /\ workers[w].cmd.id \in {ccmd[c].id, ccmd[d].id}

\* two concurrent calls, one accepted and still running, the other rejected
C2_Witness ==
    \E c, d \in Harness :
        /\ ConcurrentPair(c, d)
        /\ ExactlyOneAccepted(c, d)
        /\ Active # {}

Cleared == ~is_running /\ current_task = None

\* position of the n-th started worker, "none" before it is started
WorkerPc(n) == IF n \in DOMAIN workers THEN workers[n].pc ELSE "none"

\* the step by which caller c leaves the with block of try_execute_*
LeavesCritical(c) == pc[c] = "crit" /\ pc'[c] # "crit"

\* C3: every started job worker eventually ends with the running state
\* cleared (flag False, description None), whatever the outcome of its
\* subprocess; and a call that tests the flag when every started job has
\* ended is accepted.
C3_JobClearsRunning ==
    /\ \A n \in 1..MaxCalls :
          (WorkerPc(n) = "begin") ~> (WorkerPc(n) = "done" /\ Cleared)
    /\ [][\A c \in Harness :
            (LeavesCritical(c) /\ Active = {} /\ Reserved = {})
                => (pc'[c] = "spawn" /\ is_running')]_vars

\* a job has ended and a later call was accepted
C3_Witness ==
    /\ WorkerPc(1) = "done"
    /\ WorkerPc(2) = "begin"

\* C4 as stated: every busy reply of the poller carries the description of
\* the running job, never None.
C4_BusyReplyNamesTask ==
    \A i \in 1..MaxMsgs : replies[i].type = "busy" => replies[i].task # None

\* C5: a rejected call leaves _is_running and _current_task at the values
\* of the running job and starts no thread (so no notification is sent),
\* and no rejected command is ever run by a worker.
C5_RejectChangesNothing ==
    /\ [][\A c \in Harness :
            (LeavesCritical(c) /\ cres'[c] = "False" /\ cres[c] # "False")
                => /\ is_running /\ is_running'
                   /\ current_task # None
                   /\ current_task' = current_task
                   /\ workers' = workers]_vars
    /\ [](\A w \in DOMAIN workers : workers[w].cmd.id \notin rejected)

\* a command was rejected and the job that was running then has ended
C5_Witness ==
    /\ rejected # {}
    /\ workers # <<>>
    /\ Active = {}

\* C6: no message id put in processed_ids by the startup seeding is ever
\* passed to _handle_message.
C6_SeededNeverHandled ==
    \A i \in seeded : handled[i] = 0

\* a later poll fetched a seeded /scan or /export message again
C6_Witness ==
    /\ pc["poller"] = "iter"
    /\ batch # <<>>
    /\ Head(batch) \in seeded
    /\ channel[Head(batch)] \in Commands

\* C7: each message id is passed to _handle_message at most once, it is in
\* processed_ids when the handler runs, and processed_ids only grows.
C7_HandledAtMostOnce ==
    /\ [](\A i \in 1..MaxMsgs : handled[i] <= 1)
    /\ [](pc["poller"] = "handle" => cur \in processed_ids)
    /\ [][processed_ids \subseteq processed_ids']_vars

\* a later poll fetched again a help message whose handler had raised
C7_Witness ==
    /\ pc["poller"] = "iter"
    /\ batch # <<>>
    /\ handled[Head(batch)] = 1
    /\ channel[Head(batch)] = "help"
    /\ replies[Head(batch)].type = "none"

\* C8 as stated: no message that was in the chat when the poller started
\* is ever handled, whatever the startup fetch returned.
C8_HistoryNeverHandled ==
    \A i \in 1..nhist : handled[i] = 0

\* get_chat_messages returns the PollPageSize most recent messages only, so
\* a message that is older than those and not in the batch being iterated
\* is never seen by the poller again
Reachable(i) ==
    \/ Len(channel) - i < PollPageSize
    \/ i \in Range(batch)

\* C9 as stated, in the form a finite run refutes: every text message
\* posted after the start has been handled or can still be fetched.
C9_PostedEventuallyHandled ==
    \A i \in (nhist + 1)..Len(channel) :
        (channel[i] # "image" /\ handled[i] = 0) => Reachable(i)

ConfigLoaded == "config" \notin trouble

SegmentKey(r) == <<r.session_id, r.segment_number>>

\* C11: no Segment row is inserted for a session_id that has no Session row
\* at the time of the insert, in any run mode and whatever the existence
\* lookup returned.
C11_SegmentNeedsSession ==
    [][\A r \in db_segments' \ db_segments :
          \E q \in db_sessions : q.session_id = r.session_id]_vars

\* Segment rows were committed in a run where a failed lookup made a session
\* count as absent
C11_Witness ==
    /\ committed # {}
    /\ seg_stats.no_session > 0
    /\ "database" \in trouble
    /\ spc = "seg_done"

\* the bucket lists an mp4 object of this kind and segment number under the
\* session
Listed(session_id, kind, segment_number) ==
    \E i \in 1..Len(Objects(session_id)) :
        LET f == Objects(session_id)[i] IN
        /\ parse_mp4_filename(f)[1] # ""
        /\ CameraKind(parse_mp4_filename(f)[1]) = kind
        /\ parse_mp4_filename(f)[2] = segment_number

\* C12: every Segment row the Segment phase inserted has a down object and a
\* front object of its segment number listed under its session, and stores
\* both file names; a session with only unpaired files gets no row.
C12_InsertedSegmentsArePaired ==
    \A r \in db_segments :
        SegmentKey(r) \in committed =>
            /\ Listed(r.session_id, "down", r.segment_number)
            /\ Listed(r.session_id, "front", r.segment_number)
            /\ r.down_file_name # NoFile
            /\ r.front_file_name # NoFile
            /\ CameraKind(r.down_file_name.camera_type) = "down"
            /\ CameraKind(r.front_file_name.camera_type) = "front"

\* the phase ended after it met two unpaired segment numbers (session s2)
\* and committed rows for other sessions
C12_Witness ==
    /\ spc = "seg_done"
    /\ seg_stats.unpaired >= 2
    /\ committed # {}
    /\ \A k \in committed : k[1] # "s2"

\* C13: when the Segment phase returns, new_segments is exactly the set of
\* keys of the rows it committed, and the count of new segments is its size.
C13_TrackerIsCommitted ==
    spc = "seg_done" =>
        /\ new_segments = committed
        /\ seg_stats.new = Cardinality(committed)

\* a phase returned that committed rows, found a stored pair, met an
\* unpaired number and had an insert fail
C13_Witness ==
    /\ spc = "seg_done"
    /\ committed # {}
    /\ seg_stats.exists > 0
    /\ seg_stats.unpaired > 0
    /\ trouble \cap {"unique", "database"} # {}

\* every complete pair the bucket lists under the session is stored
AllPairsStored(session_id) ==
    LET its == SegmentItems(SelectSeq(Objects(session_id), IsMp4)) IN
    \A k \in 1..Len(its) :
        ~Unpaired(its[k]) => is_segment_exists(session_id, its[k].segment_number)

\* no two Segment rows share (session_id, segment_number)
SegmentKeysUnique ==
    \A r, q \in db_segments : SegmentKey(r) = SegmentKey(q) => r = q

\* C14: no step removes or changes a stored Segment row, no row is inserted
\* for a session whose complete pairs are all stored, and no two rows ever
\* share (session_id, segment_number).
C14_RescanIsNoOp ==
    [][/\ db_segments \subseteq db_segments'
       /\ \A r \in db_segments' \ db_segments : ~AllPairsStored(r.session_id)
       /\ SegmentKeysUnique']_vars

\* a phase returned that found both stored pairs of s1 and left the stored
\* rows as they were
C14_Witness ==
    /\ spc = "seg_done"
    /\ StoredSegments \subseteq db_segments
    /\ seg_stats.exists >= 2
    /\ \A k \in committed : k[1] # "s1"

\* the device prefixes a run with this filter and configuration scans
ScannedDevices ==
    {i \in 1..Len(DevicePrefixes) :
        /\ args.device_id \in {"", DevicePrefixes[i]}
        /\ \E r \in device_config :
              r.device_id = DevicePrefixes[i] /\ r.is_active /\ ~r.skip_scan}

\* how many session_ prefixes the bucket lists under the first i devices that
\* are scanned
SessionsUpTo[i \in 0..Len(DevicePrefixes)] ==
    IF i = 0 THEN 0
    ELSE SessionsUpTo[i - 1] +
         (IF i \in ScannedDevices
          THEN Len(SelectSeq(SessionPrefixes(DevicePrefixes[i]), IsSessionPrefix))
          ELSE 0)

\* C15: a failed download or JSON parse of one session is counted and the
\* Metadata phase goes on with the next session; a phase that met only such
\* failures ends having gone through every session of every scanned device.
C15_SessionFailureIsIsolated ==
    /\ [][stats'.parse_fail > stats.parse_fail =>
             /\ stats'.parse_fail = stats.parse_fail + 1
             /\ spc' = "session"
             /\ si' = si + 1
             /\ di' = di]_vars
    /\ [](spc = "done" /\ trouble \subseteq {"storage"} =>
             /\ stats.sessions = SessionsUpTo[Len(DevicePrefixes)]
             /\ stats.sessions = stats.skipped + stats.exists + stats.new
                                 + stats.no_metadata + stats.parse_fail)

\* a phase ended in which a download and a JSON parse failed and a later
\* session of the same device was inserted
C15_Witness ==
    /\ spc = "done"
    /\ stats.parse_fail >= 2
    /\ "storage" \in trouble
    /\ \E r \in db_sessions : r.session_id = "s8"
    /\ ~\E r \in db_sessions : r.session_id = "s5"

\* the run was ended by the failed listing of one device's session folders
DeviceListingFailed == spc = "failed" /\ di \in 1..Len(DevicePrefixes)

\* C16: a listing of one device's session folders that fails after its
\* retries fails that device only: it never ends the phase or the run.
C16_DeviceListingFailureIsLocal == ~DeviceListingFailed

\* C18: a run that could not connect to the database exits non-zero and the
\* executor sends the failure notice for it.
C18_UnreachableDatabaseIsReported ==
    "connect" \in trouble =>
        /\ spc \in {"exited", "notified"} => returncode # 0
        /\ spc = "notified" => notice = "failure"

\* C17: every remote-storage operation is attempted again after a transient
\* error, up to 5 attempts: a failure reaches the caller only after the 5th
\* attempt, and a call that meets fewer than 5 errors ends with the result.
C17_EveryOperationIsRetried ==
    /\ result = "raised" => attempts = MaxAttempts
    /\ (result # "pending" /\ fails < MaxAttempts) => result = "ok"

\* the fpv.devices row of the device says is_active = false or skip_scan =
\* true
StoredOff(device_id) ==
    \E r \in db_devices : r.device_id = device_id /\ (~r.is_active \/ r.skip_scan)

\* C19: neither phase lists the sessions of, or inserts a row for, a device
\* stored as inactive or as skip_scan.
C19_StoredOffDevicesAreNotScanned ==
    /\ spc \in {"session", "fetch", "insert", "seg_session", "seg_objects",
                "seg_pair", "seg_insert"} => ~StoredOff(DevicePrefixes[di])
    /\ \A r \in db_sessions \ StoredSessions : ~StoredOff(r.device_id)
    /\ \A k \in committed :
          \A r \in db_sessions : r.session_id = k[1] => ~StoredOff(r.device_id)

\* this run's INSERT meets a row that is already stored
UniqueViolationStep ==
    \/ /\ spc = "insert" /\ spc' # "insert"
       /\ conn # "aborted"
       /\ is_session_exists(valid_sessions[si].name)
    \/ /\ spc = "seg_insert" /\ spc' # "seg_insert"
       /\ conn # "aborted"
       /\ is_segment_exists(valid_sessions[si].name, items[ki].segment_number)

\* C20: an insert of a Session or Segment that hits the unique constraint is
\* rolled back, changes no stored row, is not counted as new, adds nothing
\* to new_segments, and the phase goes on with the next session or pair.
C20_UniqueViolationIsSkipped ==
    [][UniqueViolationStep =>
          /\ db_sessions' = db_sessions
          /\ db_segments' = db_segments
          /\ conn' = "idle"
          /\ stats'.new = stats.new
          /\ seg_stats'.new = seg_stats.new
          /\ paired'.new = paired.new
          /\ new_segments' = new_segments
          /\ \/ spc' = "session" /\ si' = si + 1
             \/ spc' = "seg_pair" /\ ki' = ki + 1]_vars

\* the Segment phase returned after one of its inserts met the row a second
\* process had committed; that row is still as the second process wrote it
\* and later pairs were committed
C20_Witness ==
    /\ spc = "seg_done"
    /\ "unique" \in trouble
    /\ \E r \in db_segments :
          /\ r.session_id # "s1"
          /\ r.down_file_size_bytes = 0
          /\ SegmentKey(r) \notin new_segments
    /\ committed # {}

\* ---------------------------------------------------------------------------
\* C21: in debug mode each phase commits at most DebugLimit new rows (5 in the
\* source) and has returned once that many are committed: the Metadata phase
\* stands at none of its listing, download or insert steps, and neither does
\* the Segment phase.
MetaSteps == {"list", "device", "sessions", "session", "fetch", "insert"}

SegSteps == {"seg_list", "seg_device", "seg_sessions", "seg_session",
             "seg_objects", "seg_pair", "seg_insert"}

C21_DebugStopsAtLimit ==
    args.debug =>
        /\ stats.new <= DebugLimit
        /\ Cardinality(committed) <= DebugLimit
        /\ Cardinality(new_segments) <= DebugLimit
        /\ (stats.new = DebugLimit /\ mode # "segments") => spc \notin MetaSteps
        /\ Cardinality(committed) = DebugLimit => spc \notin SegSteps

\* both phases of one run stopped by the limit, with sessions left unscanned
C21_Witness ==
    /\ args.debug
    /\ mode = "all"
    /\ spc = "seg_done"
    /\ stats.new = DebugLimit
    /\ Cardinality(committed) = DebugLimit
    /\ si < Len(valid_sessions)

\* ---------------------------------------------------------------------------
\* C22: when a job's worker reaches its finally block, it has sent the start
\* notification first and after it exactly one terminal notification
\* (success, failure or exception notice), never two and never none.
TerminalNotes == {"success", "failure", "exception"}

Terminals(notes) == {i \in DOMAIN notes : notes[i] \in TerminalNotes}

C22_ExactlyOneTerminalNotice ==
    \A w \in DOMAIN workers :
        workers[w].pc \in {"finally", "clear"} =>
            /\ Len(workers[w].notes) >= 2
            /\ workers[w].notes[1] = "start"
            /\ Cardinality(Terminals(workers[w].notes)) = 1

\* ---------------------------------------------------------------------------
\* C23: when an export job has ended whose subprocess exited 0 and wrote its
\* CSV, exactly that file was sent to the chat; when the subprocess exited
\* non-zero, no file was sent.
C23_ExportedCsvIsSent ==
    (job.kind = "export" /\ jpc = "end") =>
        /\ (jrc = 0 /\ written # NoCsv) => sent = <<written>>
        /\ jrc # 0 => sent = <<>>

\* ---------------------------------------------------------------------------
\* C24: for a /scan text that _handle_message passed to parse_scan_command:
\* one device word gives today..today, device and date give date..date,
\* device and two dates give d1..d2; no argument, a device word that does
\* not match [\w-]+ or contains 'date', or a date word that is no date give
\* None, and for None the usage text is sent and try_execute_scan not called.
GoodDevice == {"7393", "all", "2025-01-15", "2025-1-15", "2025-01-20", "2025-13-40"}

DayOf(tok) ==
    CASE tok = "2025-01-15" -> 15
      [] tok = "2025-1-15" -> 15
      [] tok = "2025-01-20" -> 20
      [] OTHER -> 0

IsDay(tok) == DayOf(tok) # 0

ScanHandled ==
    tpc = "handled" /\ Lower(text.head) = "/scan" /\ answer # "help"

ExportHandled ==
    tpc = "handled" /\ Lower(text.head) = "/export" /\ answer # "help"

ExpectedExport(p) ==
    IF p = <<"all">> THEN ExportCommand(NoDate, NoDate, TRUE)
    ELSE IF p = <<>> THEN ExportCommand(Today, Today, FALSE)
    ELSE IF Len(p) = 1 /\ IsDay(p[1])
         THEN ExportCommand(DayOf(p[1]), DayOf(p[1]), FALSE)
    ELSE IF Len(p) = 2 /\ IsDay(p[1]) /\ IsDay(p[2])
         THEN ExportCommand(DayOf(p[1]), DayOf(p[2]), FALSE)
    ELSE NoCommand

C25_ExportParsing ==
    ExportHandled =>
        /\ parsed = ExpectedExport(text.parts)
        /\ IF parsed = NoCommand
           THEN answer = "export_usage" /\ called = NoCommand
           ELSE answer = "none" /\ called = parsed

\* ---------------------------------------------------------------------------
\* C26: the poller never waits for a job: unless a worker holds the lock for
\* its two cleanup assignments, some step of the poller can be taken. A
\* command whose try_execute_* call finds a job running is rejected, starts
\* no worker, and is answered with the busy text; a help request handled
\* while a job runs is answered with the help text.
PollerCanStep == lock # "worker" => ENABLED PollerStep

RejectedWhileRunning ==
    (pc["poller"] = "crit" /\ is_running /\ pc'["poller"] # "crit") =>
        /\ cres'["poller"] = "False"
        /\ workers' = workers
        /\ is_running'

BusyAnswered ==
    (pc["poller"] = "ret" /\ cres["poller"] = "False") =>
        /\ pc'["poller"] \in {"ret", "busy"}
        /\ (pc'["poller"] = "busy" => cur' = cur)

BusySent ==
    (pc["poller"] = "busy" /\ pc'["poller"] # "busy") =>
        replies'[cur].type = "busy"

HelpAnsweredWhileRunning ==
    (pc["poller"] = "handle" /\ channel[cur] = "help" /\ is_running
        /\ pc'["poller"] = "iter") =>
        replies'[cur].type = "help"

C26_PollerNeverWaits ==
    /\ []PollerCanStep
    /\ [][RejectedWhileRunning /\ BusyAnswered /\ BusySent
            /\ HelpAnsweredWhileRunning]_vars

\* one job, still in its subprocess, during which a command got the busy
\* text and a later help request its answer
C26_Witness ==
    /\ Len(workers) = 1
    /\ workers[1].pc = "subprocess"
    /\ \E i, j \in 1..MaxMsgs :
          /\ i < j
          /\ replies[i].type = "busy"
          /\ replies[j].type = "help"

\* ---------------------------------------------------------------------------
\* C27: when a run whose device configuration was loaded stands at the head
\* of a session's or a segment's loop iteration, its connection is not in an
\* aborted transaction, in which the entity's lookup and insert cannot but
\* fail.
EntityHeads == {"session", "seg_session", "seg_pair"}

C27_NoAbortedTransactionBetweenEntities ==
    (ConfigLoaded /\ spc \in EntityHeads) => conn # "aborted"

\* ---------------------------------------------------------------------------
\* C28: with a second run committing rows between this run's lookups and
\* inserts, every session_id and every (session_id, segment_number) is
\* stored once; an insert that loses is rolled back and its phase goes on
\* with the next session or pair; the keys this run committed are its
\* new_segments, and no key is in new_segments and also among the keys the
\* second run committed.
SessionIdsUnique ==
    \A a, b \in db_sessions : a.session_id = b.session_id => a = b

LosingInsertGoesOn ==
    UniqueViolationStep =>
        /\ db_sessions' = db_sessions
        /\ db_segments' = db_segments
        /\ conn' = "idle"
        /\ spc' \in {"session", "seg_pair", "done", "seg_done"}
        /\ new_segments' = new_segments

C28_ConcurrentRunsCommitOnce ==
    /\ [](SessionIdsUnique /\ SegmentKeysUnique)
    /\ [](new_segments = committed)
    /\ [](new_segments \cap others.segments = {})
    /\ [](\A k \in new_segments \cup others.segments :
              \E r \in db_segments : SegmentKey(r) = k)
    /\ [](\A id \in others.sessions : \E r \in db_sessions : r.session_id = id)
    /\ [][LosingInsertGoesOn]_vars

\* the Segment phase ended after it lost one insert to the second run and
\* committed other pairs itself
C28_Witness ==
    /\ spc = "seg_done"
    /\ others.segments # {}
    /\ new_segments # {}
    /\ "unique" \in trouble

\* ---------------------------------------------------------------------------
\* C29: when a scan job has ended whose subprocess wrote no CSV (no new
\* segment was committed), no file was sent to the chat for it.
C29_NoNewSegmentsNoFile ==
    (job.kind = "scan" /\ jpc = "end" /\ written = NoCsv) => sent = <<>>

\* ---------------------------------------------------------------------------
\* C30: no step of a run changes or deletes a stored Session row: every row
\* is still there, field by field, after the step, and no second row with
\* its session_id is added, also when the metadata documents of the bucket
\* have a later revision than the one the row was made from.
SessionRowsKept == \A r \in db_sessions : r \in db_sessions'

C30_SessionRowsNeverChange ==
    /\ []SessionIdsUnique
    /\ [][SessionRowsKept]_vars

\* a second Metadata phase that ran to its end over changed documents,
\* skipping sessions whose rows were made from an earlier revision
C30_Witness ==
    /\ run = 2
    /\ spc = "done"
    /\ doc_rev = 2
    /\ stats.exists > 0
    /\ \E r \in db_sessions : r.raw_metadata_json[2] < doc_rev

\* ---------------------------------------------------------------------------
\* C31: a scanner considers a session only if its id has the form
\* session_YYYYMMDD_HHMMSS_<digits> with a calendar date d that is not below
\* the start date and not above the end date, where a bound that is not
\* given does not restrict; an id without such a date is never considered,
\* also when no bound is given.
HasDate(id) ==
    /\ id.head = "session" /\ id.tail = "digits" /\ Len(id.ymd) = 3
    /\ id.ymd \in {<<2025, 1, 15>>, <<2025, 1, 20>>}

WithinBounds(id) ==
    LET d == id.ymd[1] * 10000 + id.ymd[2] * 100 + id.ymd[3] IN
    /\ (frange.start_date # NoDate => frange.start_date <= d)
    /\ (frange.end_date # NoDate => d <= frange.end_date)

C32_ListObjectsCompleteOnce ==
    /\ [](lop = "list_objects" /\ lpc = "returned" => objects = AllKeys)
    /\ [][lop = "list_objects" /\ lpc = "request" /\ lpc' = "returned"
            => ~IsTruncated(continuation_token)]_vars
    /\ <>(lpc \in {"returned", "raised"})

\* a retried list_objects call over several pages has returned
C32_Witness ==
    /\ lop = "list_objects"
    /\ lpc = "returned"
    /\ tries > 1
    /\ nkeys > 2 * PageKeys
    /\ objects = AllKeys

\* C36: however many session folders a device has, every one of them is
\* scanned: the listing of the device's session folders that scan_metadata
\* and scan_segments iterate over holds every folder under the device prefix.
C36_EverySessionFolderIsScanned ==
    (lop = "list_prefixes" /\ lpc = "returned") => objects = AllKeys

\* the success notice names the statistic with the number the run reported
Carries(key, value) ==
    \E i \in DOMAIN stats_msg : stats_msg[i] = StatLine(key, value)

\* C33: the success notice of a scan job carries the new-session count and
\* the new-segment count the run reported (and the exported row count when
\* it exported), and the success notice of an export job carries the
\* exported row count.
C33_NoticeCarriesStatistics ==
    npc = "notified" =>
        IF nkind = "scan"
        THEN /\ Carries("new_sessions", reported.sessions)
             /\ Carries("new_segments", reported.segments)
             /\ (reported.segments > 0 => Carries("export_rows", reported.rows))
        ELSE Carries("export_rows", reported.rows)

\* C34: on every text the parser of the service and the parser that
\* test_parse_scan_command checks return the same result (the same device,
\* start and end, or None), the keyed form '/scan --device <id> [--start
\* <date>] [--end <date>]' included.
C34_ParsersAgree ==
    (tpc = "handled" /\ tparsed # NotParsed) => parsed = tparsed

\* C38: every ScanCommand and every dated ExportCommand that a parser
\* accepted and _handle_message passed to the executor has
\* start_date <= end_date.
C38_ForwardedRangeIsOrdered ==
    (called # NoCommand /\ ~called.export_all) =>
        called.start_date <= called.end_date

\* C35: whenever the executor's lock is free, _is_running is true exactly
\* when _current_task holds a job description: both are set in one critical
\* section when a job is accepted and cleared in one when it finishes.
C35_RunningIffTask ==
    lock = "free" => (is_running <=> current_task # None)

\* a job was accepted after an earlier job had finished and been cleared
C35_Witness ==
    /\ lock = "free"
    /\ is_running
    /\ current_task # None
    /\ \E w \in DOMAIN workers : workers[w].pc = "done"

\* C37: a committed Segment row records, for its down file and for its front
\* file, the size the remote object had when it was scanned: no failed size
\* lookup ends in a committed row that holds 0 for an object that is not
\* empty.
C37_RowHoldsRemoteSizes ==
    seg_row # NoSizes => \A camera \in Cameras : seg_row[camera] = remote_size[camera]

=============================================================================
